---- MODULE Spec2Model ----
(***************************************************************************)
(* A model of the naval battle engine: board coordinates, shot grids,      *)
(* ships and fleets, players, targeting strategies and the Game turn       *)
(* machine.  Values mirror the Rust data: a Cell is [x, y], a Ship is      *)
(* [first_cell, ship_size, orientation, state], a Fleet is the sequence of *)
(* its five ships, a Grid is cells[y][x], Option<T> is a sequence of       *)
(* length at most one and Result<T, E> is [ok, val, err].                  *)
(***************************************************************************)
EXTENDS Integers, Sequences, FiniteSets, TLC

VARIABLES
    players,             \* Game.players: Vec<Player> (also the two players of a bare duel)
    last_computer_move,  \* Game.last_computer_move: Option<Cell>
    rng,                 \* state of the process-wide random source
    ret,                 \* the last call made and what it returned
    attacked,            \* per player slot: the cells at which that player's fleet was attacked
    placed,              \* the ships at hand outside a game: the Vec<Ship> of Fleet::build, or the ships created
    strat,               \* the strategy at hand outside a game, and where its next_move stands
    tui                  \* the model of the screen the terminal interface is showing, if any

vars == <<players, last_computer_move, rng, ret, attacked, placed, strat, tui>>

\* ---------------------------------------------------------------- bounds

\* Number of random-source states a match may start from.
NumSeeds == 2
\* How many of the first not-yet-fired cells of the shot list the human may pick from.
HumanBranch == 1
\* The same window for the attackers of a bare two-player duel.
DuelBranch == 1
\* How many cells of its shot list the second player of a duel fires at.
ReplyShots == 3
\* Ships are created along the board edge 9 and the first Lanes rows or columns.
Lanes == 1
\* How many cells next to a ship are fired at besides its own cells.
MissProbes == 1
\* The builder of a fleet offers ships at the origins (0, 2k) and (2k, 0), k < OfferSteps.
OfferSteps == 4
\* calls of next_move, and of notify_hit, made on a strategy on its own
MaxCalls == 7
MaxNotifies == 2
\* u8 arguments of the Cell constructors: 0 .. ByteEdge and 255
ByteEdge == 11
\* characters of a text after its first one
MaxTail == 3

\* The cursor moves made on the setup screen.
MaxCursorMoves == 7
\* The shots of the computer recorded on the battle screen.
MaxComputerShots == 20

\* ---------------------------------------------------------------- Option / Result

None == <<>>
Some(v) == <<v>>
IsSome(o) == Len(o) = 1
Unwrap(o) == o[1]

Ok(v) == [ok |-> TRUE, val |-> v, err |-> ""]
Err(e) == [ok |-> FALSE, val |-> None, err |-> e]

Min(a, b) == IF a <= b THEN a ELSE b
Pow2(n) == 2 ^ n

\* ---------------------------------------------------------------- Cell (engine/grid.rs)

MAX_X == 9
MAX_Y == 9

Coord == 0 .. 9
Cells == [x : Coord, y : Coord]

Cell(x, y) == [x |-> x, y |-> y]

\* A strict constructor that looks at x first and reports it alone.
Cell_new_x_first(x, y) ==
    IF x > MAX_X THEN Err(<<"InvalidX", x>>)
    ELSE IF y > MAX_Y THEN Err(<<"InvalidY", y>>)
    ELSE [ok |-> TRUE, val |-> Cell(x, y), err |-> ""]

\* Cell::new: strict constructor.
Cell_new(x, y) ==
    IF x > MAX_X
    THEN IF y > MAX_Y
         THEN Err(<<"InvalidCoordinates", x, y>>)
         ELSE Err(<<"InvalidX", x>>)
    ELSE IF y > MAX_Y
         THEN Err(<<"InvalidY", y>>)
         ELSE [ok |-> TRUE, val |-> Cell(x, y), err |-> ""]

\* A permissive constructor that saturates x only.
Cell_bounded_x_only(x, y) == Cell(Min(x, MAX_X), y)

\* Cell::bounded: permissive constructor, saturating at the board edge.
Cell_bounded(x, y) == Cell(Min(x, MAX_X), Min(y, MAX_Y))

\* A text is the sequence of its characters. The ASCII characters in the order of
\* their codes: from the space (32) to the underscore (95), then the lower-case
\* letters (97 .. 122).
Ascii ==
    <<" ", "!", "\"", "#", "$", "%", "&", "'", "(", ")", "*", "+", ",", "-", ".", "/",
       "0", "1", "2", "3", "4", "5", "6", "7", "8", "9", ":", ";", "<", "=", ">", "?",
       "@", "A", "B", "C", "D", "E", "F", "G", "H", "I", "J", "K", "L", "M", "N", "O",
       "P", "Q", "R", "S", "T", "U", "V", "W", "X", "Y", "Z", "[", "\\", "]", "^", "_",
       "a", "b", "c", "d", "e", "f", "g", "h", "i", "j", "k", "l", "m", "n", "o",
       "p", "q", "r", "s", "t", "u", "v", "w", "x", "y", "z">>

CodeOf(ch) == LET i == CHOOSE k \in 1 .. Len(Ascii) : Ascii[k] = ch
              IN  IF i <= 64 THEN 31 + i ELSE 32 + i
CharOf(code) == IF code <= 95 THEN Ascii[code - 31] ELSE Ascii[code - 32]

\* char::is_ascii_alphabetic, char::to_ascii_uppercase and char::is_ascii_digit.
is_ascii_alphabetic(ch) == CodeOf(ch) \in 65 .. 90 \/ CodeOf(ch) \in 97 .. 122
to_ascii_uppercase(ch) == IF CodeOf(ch) \in 97 .. 122 THEN CharOf(CodeOf(ch) - 32) ELSE ch
is_ascii_digit(ch) == CodeOf(ch) \in 48 .. 57

\* The digits of str::parse::<u8>, most significant first, added up; a character
\* that is no digit and a value above 255 are errors.
RECURSIVE ParseDigits(_, _)
ParseDigits(digits, acc) ==
    IF digits = <<>> THEN Ok(acc)
    ELSE IF ~is_ascii_digit(Head(digits)) THEN Err("InvalidDigit")
    ELSE IF acc * 10 + (CodeOf(Head(digits)) - 48) > 255 THEN Err("PosOverflow")
    ELSE ParseDigits(Tail(digits), acc * 10 + (CodeOf(Head(digits)) - 48))

\* str::parse::<u8>: an empty text and a lone sign are errors, one leading plus
\* sign is skipped, and the rest must be digits.
parse_u8(src) ==
    IF src = <<>> THEN Err("Empty")
    ELSE IF Len(src) = 1 /\ Head(src) \in {"+", "-"} THEN Err("InvalidDigit")
    ELSE ParseDigits(IF Head(src) = "+" THEN Tail(src) ELSE src, 0)

\* Cell::from_str once the row number is parsed: x is the code of the upper-case
\* first character.
CellFromStrParsed(s, x_char, x, y) ==
    IF \/ ~is_ascii_alphabetic(x_char)
       \/ (x - 65) > MAX_Y
       \/ y = 0
       \/ (y - 1) > MAX_Y
    THEN Err(<<"InvalidFormat", s>>)
    ELSE Ok(Cell_bounded(x - 65, y - 1))

\* Cell::from_str: the first character is the column, the rest the row number.
Cell_from_str(s) ==
    IF s = <<>> THEN Err(<<"InvalidFormat", s>>)
    ELSE IF ~parse_u8(Tail(s)).ok THEN Err(<<"InvalidFormat", s>>)
    ELSE CellFromStrParsed(s, Head(s), CodeOf(to_ascii_uppercase(Head(s))), parse_u8(Tail(s)).val)

\* The decimal digits of a number, without leading zeros (Display for u8).
RECURSIVE Decimal(_)
Decimal(n) ==
    IF n < 10 THEN <<CharOf(48 + n)>> ELSE Append(Decimal(n \div 10), CharOf(48 + (n % 10)))

\* A formatting that prints the row as it is stored, counted from zero.
Cell_fmt_zero_based(cell) == <<CharOf(cell.x + 65)>> \o Decimal(cell.y)

\* Display for Cell: the column letter and the row number counted from one.
Cell_fmt(cell) == <<CharOf(cell.x + 65)>> \o Decimal(cell.y + 1)

\* A move_left that stops at the left edge.
Cell_move_left_saturating(cell) == Cell(IF cell.x = 0 THEN 0 ELSE cell.x - 1, cell.y)

\* Cell::move_left: x.checked_sub(1), or MAX_X when there is nothing to subtract from.
Cell_move_left(cell) == Cell(IF cell.x - 1 < 0 THEN MAX_X ELSE cell.x - 1, cell.y)

\* Cell::move_right: 0 at MAX_X, else x.saturating_add(1) on a u8.
Cell_move_right(cell) ==
    Cell(IF cell.x = MAX_X THEN 0 ELSE (IF cell.x + 1 > 255 THEN 255 ELSE cell.x + 1), cell.y)

\* Cell::move_up
Cell_move_up(cell) == Cell(cell.x, IF cell.y - 1 < 0 THEN MAX_Y ELSE cell.y - 1)

\* Cell::move_down
Cell_move_down(cell) ==
    Cell(cell.x, IF cell.y = MAX_Y THEN 0 ELSE (IF cell.y + 1 > 255 THEN 255 ELSE cell.y + 1))

\* ---------------------------------------------------------------- random source

\* The process-wide random source is modelled as a seeded 16-bit generator whose
\* high byte is the u8 drawn; a draw returns the value and the generator's next state.
RngStep(r) == (r * 25173 + 13849) % 65536
random_u8(r) == [val |-> RngStep(r) \div 256, rng |-> RngStep(r)]

\* The generator states a match may start from.
Seeds == { (s * 7919 + 1) % 65536 : s \in 0 .. (NumSeeds - 1) }

\* The cell Cell::random makes of the two u8 values it draws: each is reduced
\* modulo MAX_X / MAX_Y.
Cell_random_of(a, b) == Cell(a % MAX_X, b % MAX_Y)

\* Cell::random: two draws, each reduced modulo MAX_X / MAX_Y.
Cell_random(r) ==
    [val |-> Cell_random_of(random_u8(r).val, random_u8(random_u8(r).rng).val),
     rng |-> random_u8(random_u8(r).rng).rng]

\* The cells Cell::random can return at all.
RandomCells == { Cell_random_of(a, b) : a \in 0 .. 255, b \in 0 .. 255 }

\* ---------------------------------------------------------------- Grid (engine/grid.rs)

CellState == {"Empty", "Occupied", "Miss", "Hit"}

\* Grid::default: every cell Empty.
Grid_default == [y \in Coord |-> [x \in Coord |-> "Empty"]]

\* Grid::at
Grid_at(grid, cell) == grid[cell.y][cell.x]

\* Grid::mark: overwrite one cell, whatever it held.
Grid_mark(grid, cell, state) ==
    [grid EXCEPT ![cell.y] = [grid[cell.y] EXCEPT ![cell.x] = state]]

\* Grid::is_empty
Grid_is_empty(grid) == \A y \in Coord : \A x \in Coord : grid[y][x] = "Empty"

\* ---------------------------------------------------------------- ShipKind / Ship (ship.rs)

AIRCRAFT_CARRIER_SIZE == 5
BATTLESHIP_SIZE == 4
CRUISER_SIZE == 3
SUBMARINE_SIZE == 3
DESTROYER_SIZE == 2

ShipOrientation == {"Horizontal", "Vertical"}

\* ShipKind::size
ShipKind_size(kind) ==
    CASE kind = "AircraftCarrier" -> AIRCRAFT_CARRIER_SIZE
      [] kind = "Battleship" -> BATTLESHIP_SIZE
      [] kind = "Cruiser" -> CRUISER_SIZE
      [] kind = "Submarine" -> SUBMARINE_SIZE
      [] kind = "Destroyer" -> DESTROYER_SIZE

\* get_ship_state: one bit per segment, all set.
RECURSIVE ShipStateBits(_, _)
ShipStateBits(i, size) ==
    IF i >= size THEN 0 ELSE Pow2(i) + ShipStateBits(i + 1, size)

\* A mask whose bits start at bit 1.
get_ship_state_from_one(size) == ShipStateBits(1, size + 1)

get_ship_state(size) == ShipStateBits(0, size)

\* A Ship::new that keeps the last column and row free.
Ship_new_short_board(ship_size, first_cell, direction) ==
    LET long == IF direction = "Horizontal" THEN first_cell.x ELSE first_cell.y
        short == IF direction = "Horizontal" THEN first_cell.y ELSE first_cell.x
    IN  IF long <= 9 /\ long + ship_size <= 9 /\ short <= 9
        THEN Some([first_cell |-> first_cell,
                   ship_size |-> ship_size,
                   orientation |-> direction,
                   state |-> get_ship_state(ship_size)])
        ELSE None

\* Ship::new: Some(ship) when the footprint fits the board, None otherwise.
Ship_new(ship_size, first_cell, direction) ==
    LET long == IF direction = "Horizontal" THEN first_cell.x ELSE first_cell.y
        short == IF direction = "Horizontal" THEN first_cell.y ELSE first_cell.x
    IN  IF long <= 9 /\ long + ship_size - 1 <= 9 /\ short <= 9
        THEN Some([first_cell |-> first_cell,
                   ship_size |-> ship_size,
                   orientation |-> direction,
                   state |-> get_ship_state(ship_size)])
        ELSE None

\* ShipKind::ship
ShipKind_ship(kind, first, orientation) == Ship_new(ShipKind_size(kind), first, orientation)

\* ShipOrientation::random: one draw, even is Horizontal.
ShipOrientation_random(r) ==
    [val |-> IF random_u8(r).val % 2 = 0 THEN "Horizontal" ELSE "Vertical",
     rng |-> random_u8(r).rng]

\* ShipKind::random: draw a cell and an orientation until the ship fits.
RECURSIVE ShipKind_random(_, _)
\* One pass of its loop, with the cell c and the orientation o drawn.
ShipKindRandomTry(kind, c, o) ==
    IF IsSome(ShipKind_ship(kind, c.val, o.val))
    THEN [val |-> Unwrap(ShipKind_ship(kind, c.val, o.val)), rng |-> o.rng]
    ELSE ShipKind_random(kind, o.rng)

ShipKind_random(kind, r) ==
    ShipKindRandomTry(kind, Cell_random(r), ShipOrientation_random(Cell_random(r).rng))

\* An occupied_cells that starts one cell after the origin.
Ship_occupied_cells_from_one(ship) ==
    IF ship.orientation = "Horizontal"
    THEN [dx \in 1 .. ship.ship_size |->
            Cell_bounded(ship.first_cell.x + dx, ship.first_cell.y)]
    ELSE [dy \in 1 .. ship.ship_size |->
            Cell_bounded(ship.first_cell.x, ship.first_cell.y + dy)]

\* Ship::occupied_cells: the footprint, from the origin along the orientation axis.
Ship_occupied_cells(ship) ==
    IF ship.orientation = "Horizontal"
    THEN [dx \in 1 .. ship.ship_size |->
            Cell_bounded(ship.first_cell.x + (dx - 1), ship.first_cell.y)]
    ELSE [dy \in 1 .. ship.ship_size |->
            Cell_bounded(ship.first_cell.x, ship.first_cell.y + (dy - 1))]

\* Ship::is_sunk
Ship_is_sunk(ship) == ship.state = 0

\* A contains whose ranges include their upper end.
Ship_contains_inclusive(ship, cell) ==
    IF /\ ship.orientation = "Horizontal"
       /\ ship.first_cell.y = cell.y
       /\ cell.x >= ship.first_cell.x
       /\ cell.x <= ship.first_cell.x + ship.ship_size
    THEN Some(cell.x - ship.first_cell.x)
    ELSE IF /\ ship.orientation = "Vertical"
            /\ ship.first_cell.x = cell.x
            /\ cell.y >= ship.first_cell.y
            /\ cell.y <= ship.first_cell.y + ship.ship_size
         THEN Some(cell.y - ship.first_cell.y)
         ELSE None

\* Ship::contains: the segment index of the cell, if it lies on the footprint.
Ship_contains(ship, cell) ==
    IF /\ ship.orientation = "Horizontal"
       /\ ship.first_cell.y = cell.y
       /\ cell.x >= ship.first_cell.x
       /\ cell.x < ship.first_cell.x + ship.ship_size
    THEN Some(cell.x - ship.first_cell.x)
    ELSE IF /\ ship.orientation = "Vertical"
            /\ ship.first_cell.x = cell.x
            /\ cell.y >= ship.first_cell.y
            /\ cell.y < ship.first_cell.y + ship.ship_size
         THEN Some(cell.y - ship.first_cell.y)
         ELSE None

\* state ^ (1u8 << bit): the bit is flipped instead of cleared.
FlipBit(state, bit) ==
    IF (state \div Pow2(bit)) % 2 = 1 THEN state - Pow2(bit) ELSE state + Pow2(bit)

\* state & !(1u8 << bit) on an 8-bit mask.
ClearBit(state, bit) ==
    IF (state \div Pow2(bit)) % 2 = 1 THEN state - Pow2(bit) ELSE state

\* A hit_at that reports a hit only at a segment that was not hit before.
Ship_hit_at_fresh_only(ship, cell) ==
    LET bit == Ship_contains(ship, cell)
    IN  IF IsSome(bit) /\ ClearBit(ship.state, Unwrap(bit)) # ship.state
        THEN [hit |-> TRUE, ship |-> [ship EXCEPT !.state = ClearBit(ship.state, Unwrap(bit))]]
        ELSE [hit |-> FALSE, ship |-> ship]

\* A hit_at that gives the ship its whole mask back when the cell is off the ship.
Ship_hit_at_restoring(ship, cell) ==
    LET bit == Ship_contains(ship, cell)
    IN  IF IsSome(bit)
        THEN [hit |-> TRUE, ship |-> [ship EXCEPT !.state = ClearBit(ship.state, Unwrap(bit))]]
        ELSE [hit |-> FALSE, ship |-> [ship EXCEPT !.state = Pow2(ship.ship_size) - 1]]

\* Ship::hit_at: [hit, ship]: whether the cell is on the ship, and the ship afterwards.
Ship_hit_at(ship, cell) ==
    LET bit == Ship_contains(ship, cell)
    IN  IF IsSome(bit)
        THEN [hit |-> TRUE, ship |-> [ship EXCEPT !.state = ClearBit(ship.state, Unwrap(bit))]]
        ELSE [hit |-> FALSE, ship |-> ship]

\* An is_overlapping that scans the footprint and the border after it, not the border before.
Ship_is_overlapping_from_origin(self, other) ==
    LET x_start == self.first_cell.x
        y_start == self.first_cell.y
        x_end == IF self.orientation = "Horizontal"
                 THEN Min(self.first_cell.x + self.ship_size + 1, 9)
                 ELSE Min(self.first_cell.x + 1, 9)
        y_end == IF self.orientation = "Horizontal"
                 THEN Min(self.first_cell.y + 1, 9)
                 ELSE Min(self.first_cell.y + self.ship_size + 1, 9)
    IN  \E x \in x_start .. x_end : \E y \in y_start .. y_end :
            IsSome(Ship_contains(other, Cell_bounded(x, y)))

\* An is_overlapping whose border runs the whole length of the board along the
\* ship's axis: a ship keeps its lane and the two beside it to itself.
Ship_is_overlapping_lane(self, other) ==
    LET x_start == IF self.orientation = "Horizontal" THEN 0
                   ELSE IF self.first_cell.x >= 1 THEN self.first_cell.x - 1 ELSE 0
        y_start == IF self.orientation = "Vertical" THEN 0
                   ELSE IF self.first_cell.y >= 1 THEN self.first_cell.y - 1 ELSE 0
        x_end == IF self.orientation = "Horizontal" THEN 9 ELSE Min(self.first_cell.x + 1, 9)
        y_end == IF self.orientation = "Horizontal" THEN Min(self.first_cell.y + 1, 9) ELSE 9
    IN  \E x \in x_start .. x_end : \E y \in y_start .. y_end :
            IsSome(Ship_contains(other, Cell_bounded(x, y)))

\* Ship::is_overlapping: does `other` touch this ship's footprint widened by a border.
Ship_is_overlapping(self, other) ==
    LET x_start == IF self.first_cell.x >= 1 THEN self.first_cell.x - 1 ELSE 0
        y_start == IF self.first_cell.y >= 1 THEN self.first_cell.y - 1 ELSE 0
        x_end == IF self.orientation = "Horizontal"
                 THEN Min(self.first_cell.x + self.ship_size + 1, 9)
                 ELSE Min(self.first_cell.x + 1, 9)
        y_end == IF self.orientation = "Horizontal"
                 THEN Min(self.first_cell.y + 1, 9)
                 ELSE Min(self.first_cell.y + self.ship_size + 1, 9)
    IN  \E x \in x_start .. x_end : \E y \in y_start .. y_end :
            IsSome(Ship_contains(other, Cell_bounded(x, y)))

\* ---------------------------------------------------------------- Fleet (ship.rs)

\* Fleet::COMPOSITION: the order in which the ships are stored.
COMPOSITION == <<"AircraftCarrier", "Battleship", "Cruiser", "Submarine", "Destroyer">>

\* Fleet::build with a builder that hands out the ships of `offers` one per call:
\* an offered ship overlapping an accepted one is dropped and the builder is asked
\* again for the same kind.  None when the offers run out before five are accepted.
RECURSIVE FleetBuildFrom(_, _)
\* A pass of the inner loop that compares the offered ship with the last accepted one only.
FleetBuildOfferLastOnly(ships, ship) ==
    IF ships # <<>> /\ Ship_is_overlapping(ships[Len(ships)], ship)
    THEN ships
    ELSE Append(ships, ship)

\* A pass of the inner loop that starts the fleet over when the offered ship overlaps.
FleetBuildOfferStartsOver(ships, ship) ==
    IF \E i \in 1 .. Len(ships) : Ship_is_overlapping(ships[i], ship)
    THEN <<>>
    ELSE Append(ships, ship)

\* One pass of the inner loop of Fleet::build with the ship the builder returned:
\* the ships accepted afterwards.
FleetBuildOffer(ships, ship) ==
    IF \E i \in 1 .. Len(ships) : Ship_is_overlapping(ships[i], ship)
    THEN ships
    ELSE Append(ships, ship)

FleetBuildFrom(ships, offers) ==
    IF Len(ships) = Len(COMPOSITION) THEN Some(ships)
    ELSE IF offers = <<>> THEN None
    ELSE FleetBuildFrom(FleetBuildOffer(ships, Head(offers)), Tail(offers))

Fleet_build(offers) == FleetBuildFrom(<<>>, offers)

\* validate_ships: every ship is tested against each ship after it.
validate_ships(ships) ==
    IF \E i \in 1 .. Len(ships) : \E j \in (i + 1) .. Len(ships) :
           Ship_is_overlapping(ships[i], ships[j])
    THEN Err("Ships overlap")
    ELSE Ok(None)

\* An Enter key that places the ship without looking at the ships placed.
SetupEnterUnchecked(ships, ship) == Append(ships, ship)

\* The Enter key of the setup screen (tui/widgets/setup.rs) with the ship of the
\* current kind under the cursor: the ship is kept when it overlaps none of the
\* ships kept so far, each tested as ship.is_overlapping(s).
SetupEnter(ships, ship) ==
    IF \A i \in 1 .. Len(ships) : ~Ship_is_overlapping(ship, ships[i])
    THEN Append(ships, ship) ELSE ships

\* The ships kept by the setup screen when the given ships are entered in turn;
\* a ship that is not kept leaves the screen waiting for one of its kind.
RECURSIVE SetupEnterAll(_, _)
SetupEnterAll(ships, offers) ==
    IF offers = <<>> \/ SetupEnter(ships, Head(offers)) = ships THEN ships
    ELSE SetupEnterAll(SetupEnter(ships, Head(offers)), Tail(offers))

\* Fleet::build(|k| k.random()): the builder draws from the random source.
RECURSIVE FleetBuildRandomFrom(_, _)
\* One pass of the inner loop, with the ship b.val the builder returned.
FleetBuildRandomOffer(ships, b) ==
    IF \E i \in 1 .. Len(ships) : Ship_is_overlapping(ships[i], b.val)
    THEN FleetBuildRandomFrom(ships, b.rng)
    ELSE FleetBuildRandomFrom(Append(ships, b.val), b.rng)

FleetBuildRandomFrom(ships, r) ==
    IF Len(ships) = Len(COMPOSITION) THEN [val |-> ships, rng |-> r]
    ELSE FleetBuildRandomOffer(ships, ShipKind_random(COMPOSITION[Len(ships) + 1], r))

\* The fleets built from the generator states a match may start from, computed once.
BuiltAtSeed == [seed \in Seeds |-> FleetBuildRandomFrom(<<>>, seed)]

Fleet_build_random(r) ==
    IF r \in Seeds THEN BuiltAtSeed[r] ELSE FleetBuildRandomFrom(<<>>, r)

\* A hit_at that finds the ship on the cell without recording the hit on it.
Fleet_hit_at_unrecorded(fleet, cell) ==
    LET on == { i \in 1 .. Len(fleet) : IsSome(Ship_contains(fleet[i], cell)) }
    IN  IF on = {} THEN [kind |-> None, fleet |-> fleet]
        ELSE [kind |-> Some(COMPOSITION[CHOOSE i \in on : \A j \in on : i <= j]),
              fleet |-> fleet]

\* Fleet::hit_at: the ships are tried in order up to the first one the cell lies on;
\* [kind, fleet]: the kind hit (or None) and the fleet afterwards.
Fleet_hit_at(fleet, cell) ==
    LET on == { i \in 1 .. Len(fleet) : Ship_hit_at(fleet[i], cell).hit }
    IN  IF on = {} THEN [kind |-> None, fleet |-> fleet]
        ELSE LET index == CHOOSE i \in on : \A j \in on : i <= j
             IN  [kind |-> Some(COMPOSITION[index]),
                  fleet |-> [fleet EXCEPT ![index] = Ship_hit_at(fleet[index], cell).ship]]

\* A fleet counted as sunk as soon as one of its ships is.
Fleet_is_sunk_any(fleet) == \E i \in 1 .. Len(fleet) : Ship_is_sunk(fleet[i])

\* Fleet::is_sunk
Fleet_is_sunk(fleet) == \A i \in 1 .. Len(fleet) : Ship_is_sunk(fleet[i])

\* The cells of all ships of a fleet, ship by ship in stored order.
RECURSIVE FleetCellsFrom(_, _)
FleetCellsFrom(fleet, i) ==
    IF i > Len(fleet) THEN <<>>
    ELSE Ship_occupied_cells(fleet[i]) \o FleetCellsFrom(fleet, i + 1)

Fleet_occupied_cells(fleet) == FleetCellsFrom(fleet, 1)

\* ---------------------------------------------------------------- Strategy (engine/strategy.rs)

Contains(seq, v) == \E i \in 1 .. Len(seq) : seq[i] = v

\* No screen of the terminal interface is at hand.
NoTui == [screen |-> "none"]

\* NoStrategy (engine/player.rs), RandomStrategy and SmartStrategy::new.
NoStrategy == [kind |-> "NoStrategy", moves |-> <<>>, candidates_moves |-> <<>>]
RandomStrategy == [kind |-> "RandomStrategy", moves |-> <<>>, candidates_moves |-> <<>>]
SmartStrategy_new == [kind |-> "SmartStrategy", moves |-> <<>>, candidates_moves |-> <<>>]

\* The loop of SmartStrategy::next_move: pop a candidate, or draw a random cell when
\* the stack is empty, until the cell is not in the move history.
RECURSIVE SmartNextLoop(_, _, _)
SmartNextLoop(candidates, moves, r) ==
    LET popped == candidates # <<>>
        drawn == Cell_random(r)
        cell == IF popped THEN candidates[Len(candidates)] ELSE drawn.val
        rest == IF popped THEN SubSeq(candidates, 1, Len(candidates) - 1) ELSE candidates
        r2 == IF popped THEN r ELSE drawn.rng
    IN  IF ~Contains(moves, cell)
        THEN [cell |-> cell, candidates |-> rest, rng |-> r2]
        ELSE SmartNextLoop(rest, moves, r2)

\* A loop that leaves on every cell, tried or not.
SmartNextBreaksAlways(moves, cell) == TRUE

\* The test that ends the loop of SmartStrategy::next_move.
SmartNextBreaks(moves, cell) == ~Contains(moves, cell)

\* A pass that takes the oldest candidate instead of the newest.
SmartNextPassOldest(candidates, drawn) ==
    IF candidates # <<>>
    THEN [cell |-> Head(candidates), candidates |-> Tail(candidates), popped |-> TRUE]
    ELSE [cell |-> drawn, candidates |-> candidates, popped |-> FALSE]

\* One pass of that loop, up to the test: the cell popped from the stack, or the
\* one drawn when the stack is empty.
SmartNextPass(candidates, drawn) ==
    IF candidates # <<>>
    THEN [cell |-> candidates[Len(candidates)],
          candidates |-> SubSeq(candidates, 1, Len(candidates) - 1), popped |-> TRUE]
    ELSE [cell |-> drawn, candidates |-> candidates, popped |-> FALSE]

\* Whether that loop can end: some candidate or some cell the random source can
\* yield is not in the history yet.
SmartNextReturns(strategy) ==
    ~(/\ \A i \in 1 .. Len(strategy.candidates_moves) :
            Contains(strategy.moves, strategy.candidates_moves[i])
      /\ \A c \in RandomCells : Contains(strategy.moves, c))

\* SmartStrategy::next_move: the chosen cell is appended to the history.
SmartNextMoveFound(strategy, next) ==
    [val |-> Some(next.cell),
     strategy |-> [strategy EXCEPT !.moves = Append(strategy.moves, next.cell),
                                   !.candidates_moves = next.candidates],
     rng |-> next.rng]

SmartStrategy_next_move(strategy, r) ==
    SmartNextMoveFound(strategy, SmartNextLoop(strategy.candidates_moves, strategy.moves, r))

\* A loop body that pushes the cells on the board whether tried or not.
NotifyHitRingUnfiltered(moves, last_move, i) ==
    (IF last_move.x + i < 10 THEN <<Cell(last_move.x + i, last_move.y)>> ELSE <<>>)
        \o (IF last_move.x >= i THEN <<Cell(last_move.x - i, last_move.y)>> ELSE <<>>)
        \o (IF last_move.y + i < 10 THEN <<Cell(last_move.x, last_move.y + i)>> ELSE <<>>)
        \o (IF last_move.y >= i THEN <<Cell(last_move.x, last_move.y - i)>> ELSE <<>>)

\* The body of the for loop of SmartStrategy::notify_hit for distance i: up to four
\* new candidates, pushed in the order x+i, x-i, y+i, y-i.
NotifyHitRing(moves, last_move, i) ==
    LET right == IF last_move.x + i < 10 /\ Cell_new(last_move.x + i, last_move.y).ok
                    /\ ~Contains(moves, Cell_new(last_move.x + i, last_move.y).val)
                 THEN <<Cell_new(last_move.x + i, last_move.y).val>> ELSE <<>>
        left  == IF last_move.x >= i /\ Cell_new(last_move.x - i, last_move.y).ok
                    /\ ~Contains(moves, Cell_new(last_move.x - i, last_move.y).val)
                 THEN <<Cell_new(last_move.x - i, last_move.y).val>> ELSE <<>>
        down  == IF last_move.y + i < 10 /\ Cell_new(last_move.x, last_move.y + i).ok
                    /\ ~Contains(moves, Cell_new(last_move.x, last_move.y + i).val)
                 THEN <<Cell_new(last_move.x, last_move.y + i).val>> ELSE <<>>
        up    == IF last_move.y >= i /\ Cell_new(last_move.x, last_move.y - i).ok
                    /\ ~Contains(moves, Cell_new(last_move.x, last_move.y - i).val)
                 THEN <<Cell_new(last_move.x, last_move.y - i).val>> ELSE <<>>
    IN  right \o left \o down \o up

\* The for loop of SmartStrategy::notify_hit: distances i .. size - 1.
RECURSIVE NotifyHitFrom(_, _, _, _)
NotifyHitFrom(moves, last_move, i, size) ==
    IF i >= size THEN <<>>
    ELSE NotifyHitRing(moves, last_move, i) \o NotifyHitFrom(moves, last_move, i + 1, size)

\* SmartStrategy::notify_hit: candidates around the last move are pushed on the stack.
SmartStrategy_notify_hit(strategy, kind) ==
    LET size == ShipKind_size(kind)
        last_move == strategy.moves[Len(strategy.moves)]
        new_candidates == NotifyHitFrom(strategy.moves, last_move, 1, size)
    IN  [strategy EXCEPT !.candidates_moves = strategy.candidates_moves \o new_candidates]

\* Strategy::next_move, dispatched on the variant: [val, strategy, rng].
Strategy_next_move(strategy, r) ==
    CASE strategy.kind = "NoStrategy" -> [val |-> None, strategy |-> strategy, rng |-> r]
      [] strategy.kind = "RandomStrategy" ->
            [val |-> Some(Cell_random(r).val), strategy |-> strategy, rng |-> Cell_random(r).rng]
      [] strategy.kind = "SmartStrategy" -> SmartStrategy_next_move(strategy, r)

\* Strategy::notify_hit: the default body is empty; only SmartStrategy overrides it.
Strategy_notify_hit(strategy, kind) ==
    IF strategy.kind = "SmartStrategy" THEN SmartStrategy_notify_hit(strategy, kind)
    ELSE strategy

\* Whether Strategy::next_move returns at all.
Strategy_next_move_returns(strategy) ==
    strategy.kind = "SmartStrategy" => SmartNextReturns(strategy)

\* ---------------------------------------------------------------- Player (engine/player.rs)

\* Player::new: empty shot grid, no strategy, human.
Player_new(name, fleet) ==
    [name |-> name, fleet |-> fleet, grid |-> Grid_default,
     strategy |-> NoStrategy, human |-> TRUE]

\* Player::set_strategy
Player_set_strategy(player, strategy) ==
    [player EXCEPT !.strategy = strategy, !.human = FALSE]

\* An attack that records the outcome on the opponent's grid.
PlayerAttackMarksOpponent(self, opponent, cell, h) ==
    [ship_hit |-> h.kind,
     self |-> self,
     opponent |-> [opponent EXCEPT !.fleet = h.fleet,
                                   !.grid = IF IsSome(h.kind) THEN Grid_mark(opponent.grid, cell, "Hit")
                                            ELSE Grid_mark(opponent.grid, cell, "Miss")]]

\* Player::attack: the opponent's fleet resolves the hit, the attacker's own grid
\* records it; [ship_hit, self, opponent].
PlayerAttackResolved(self, opponent, cell, h) ==
    [ship_hit |-> h.kind,
     self |-> [self EXCEPT !.grid =
                 IF IsSome(h.kind) THEN Grid_mark(self.grid, cell, "Hit")
                 ELSE Grid_mark(self.grid, cell, "Miss")],
     opponent |-> [opponent EXCEPT !.fleet = h.fleet]]

Player_attack(self, opponent, cell) ==
    PlayerAttackResolved(self, opponent, cell, Fleet_hit_at(opponent.fleet, cell))

\* Player::has_lost
Player_has_lost(player) == Fleet_is_sunk(player.fleet)

\* Player::next_move: [val, self, rng]
PlayerNextMoveFound(player, n) ==
    [val |-> n.val, self |-> [player EXCEPT !.strategy = n.strategy], rng |-> n.rng]

Player_next_move(player, r) == PlayerNextMoveFound(player, Strategy_next_move(player.strategy, r))

\* Player::is_human
Player_is_human(player) == player.human

\* ---------------------------------------------------------------- Game (engine/game.rs)

COMPUTER_NAME == "Computer"

\* An is_over that waits for both players to have lost.
Game_is_over_both_lost(ps) == Len(ps) = 2 /\ \A i \in 1 .. Len(ps) : Player_has_lost(ps[i])

\* Game::is_over
Game_is_over(ps) == Len(ps) = 2 /\ \E i \in 1 .. Len(ps) : Player_has_lost(ps[i])

\* An is_ready that only counts the players.
Game_is_ready_two_players(ps) == Len(ps) = 2

\* Game::is_ready
Game_is_ready(ps) == Len(ps) = 2 /\ ~(\E i \in 1 .. Len(ps) : Player_has_lost(ps[i]))

\* A set_human_player that does not clear the players held so far.
SetHumanPlayerWithoutClear(ps, player, human_player_first, built) ==
    LET computer == Player_set_strategy(Player_new(COMPUTER_NAME, built.val), SmartStrategy_new)
    IN  [players |-> IF human_player_first
                     THEN Append(Append(ps, player), computer)
                     ELSE Append(Append(ps, computer), player),
         rng |-> built.rng]

\* Game::set_human_player: a computer player with a random fleet and the smart
\* strategy joins, the players held so far are cleared, and the coin decides who is
\* stored first.  [players, rng]
SetHumanPlayerWith(ps, player, human_player_first, built) ==
    LET computer == Player_set_strategy(Player_new(COMPUTER_NAME, built.val), SmartStrategy_new)
        cleared == SubSeq(ps, 1, 0)
    IN  [players |-> IF human_player_first
                     THEN Append(Append(cleared, player), computer)
                     ELSE Append(Append(cleared, computer), player),
         rng |-> built.rng]

Game_set_human_player(ps, player, human_player_first, r) ==
    SetHumanPlayerWith(ps, player, human_player_first, Fleet_build_random(r))

\* do_move: the player's strategy or the human's coordinate gives the move, the
\* player attacks, and the attacker wins if the opposite has lost.
\* [winner, computer_move, move, player, opposite, rng]
DoMoveAttacked(n, player_move, a) ==
    [winner |-> Player_has_lost(a.opponent),
     computer_move |-> n.val,
     move |-> player_move,
     player |-> a.self,
     opposite |-> a.opponent,
     rng |-> n.rng]

\* A choice of the move that replaces the human's coordinate by the corner A1.
PlayerMoveCorner(n, human_move) == IF IsSome(n.val) THEN Unwrap(n.val) ELSE Cell(0, 0)

PlayerMove(n, human_move) == IF IsSome(n.val) THEN Unwrap(n.val) ELSE human_move

DoMoveWith(n, opposite, human_move) ==
    DoMoveAttacked(n, PlayerMove(n, human_move),
                   Player_attack(n.self, opposite, PlayerMove(n, human_move)))

do_move(player, opposite, human_move, r) ==
    DoMoveWith(Player_next_move(player, r), opposite, human_move)

\* Game::play_turn: [result, players, last_computer_move, moves, rng], where moves
\* lists the attacks made, as <<attacking slot, cell>>.
\* A play_turn that stores the two players in the opposite order after a full round.
PlayTurnSecondSwapped(m1, m2) ==
    IF m2.winner
    THEN [result |-> Ok(Some(Player_is_human(m2.player))),
          players |-> <<m2.player, m2.opposite>>,
          last_computer_move |-> m1.computer_move,
          moves |-> << <<1, m1.move>>, <<2, m2.move>> >>,
          rng |-> m2.rng]
    ELSE [result |-> Ok(None),
          players |-> <<m2.player, m2.opposite>>,
          last_computer_move |->
              IF IsSome(m2.computer_move) THEN m2.computer_move ELSE m1.computer_move,
          moves |-> << <<1, m1.move>>, <<2, m2.move>> >>,
          rng |-> m2.rng]

\* A play_turn whose second attack reports the defeated player as the winner.
PlayTurnSecondWrongWinner(m1, m2) ==
    IF m2.winner
    THEN [result |-> Ok(Some(Player_is_human(m2.opposite))),
          players |-> <<m2.opposite, m2.player>>,
          last_computer_move |-> m1.computer_move,
          moves |-> << <<1, m1.move>>, <<2, m2.move>> >>,
          rng |-> m2.rng]
    ELSE [result |-> Ok(None),
          players |-> <<m2.opposite, m2.player>>,
          last_computer_move |->
              IF IsSome(m2.computer_move) THEN m2.computer_move ELSE m1.computer_move,
          moves |-> << <<1, m1.move>>, <<2, m2.move>> >>,
          rng |-> m2.rng]

\* After the second do_move (m2), the first (m1) having named no winner.
PlayTurnSecond(m1, m2) ==
    IF m2.winner
    THEN [result |-> Ok(Some(Player_is_human(m2.player))),
          players |-> <<m2.opposite, m2.player>>,
          last_computer_move |-> m1.computer_move,
          moves |-> << <<1, m1.move>>, <<2, m2.move>> >>,
          rng |-> m2.rng]
    ELSE [result |-> Ok(None),
          players |-> <<m2.opposite, m2.player>>,
          last_computer_move |->
              IF IsSome(m2.computer_move) THEN m2.computer_move ELSE m1.computer_move,
          moves |-> << <<1, m1.move>>, <<2, m2.move>> >>,
          rng |-> m2.rng]

\* A play_turn that lets the second player attack even after the first one has won.
PlayTurnFirstNoStop(m1, human_move) ==
    PlayTurnSecond(m1, do_move(m1.opposite, m1.player, human_move, m1.rng))

\* After the first do_move (m1); last_computer_move was reset to None before it.
PlayTurnFirst(m1, human_move) ==
    IF m1.winner
    THEN [result |-> Ok(Some(Player_is_human(m1.player))),
          players |-> <<m1.player, m1.opposite>>,
          last_computer_move |-> None,
          moves |-> << <<1, m1.move>> >>,
          rng |-> m1.rng]
    ELSE PlayTurnSecond(m1, do_move(m1.opposite, m1.player, human_move, m1.rng))

\* A play_turn that resets last_computer_move before it checks that the game is ready.
Game_play_turn_reset_first(ps, lcm, human_move, r) ==
    IF ~Game_is_ready(ps)
    THEN [result |-> Err("Game is not ready or already over"),
          players |-> ps, last_computer_move |-> None, moves |-> <<>>, rng |-> r]
    ELSE PlayTurnFirst(do_move(ps[1], ps[2], human_move, r), human_move)

Game_play_turn(ps, lcm, human_move, r) ==
    IF ~Game_is_ready(ps)
    THEN [result |-> Err("Game is not ready or already over"),
          players |-> ps, last_computer_move |-> lcm, moves |-> <<>>, rng |-> r]
    ELSE PlayTurnFirst(do_move(ps[1], ps[2], human_move, r), human_move)

\* Whether Game::play_turn returns: each strategy consulted must yield a move.
Game_play_turn_returns(ps, human_move, r) ==
    Game_is_ready(ps) =>
        /\ Strategy_next_move_returns(ps[1].strategy)
        /\ \/ do_move(ps[1], ps[2], human_move, r).winner
           \/ Strategy_next_move_returns(ps[2].strategy)

\* ---------------------------------------------------------------- inputs

SeqToSet(seq) == { seq[i] : i \in 1 .. Len(seq) }

\* The first n elements of seq that satisfy keep[i], without repetitions.
RECURSIVE FirstOpen(_, _, _, _)
FirstOpen(seq, i, n, open) ==
    IF n = 0 \/ i > Len(seq) THEN {}
    ELSE IF open[seq[i]] /\ ~(\E j \in 1 .. (i - 1) : seq[j] = seq[i])
         THEN {seq[i]} \cup FirstOpen(seq, i + 1, n - 1, open)
         ELSE FirstOpen(seq, i + 1, n, open)

\* A fleet laid out by hand, one ship per kind from the given origins and orientation
\* (the fixtures of the player tests).
PlacedFleet(origins, orientation) ==
    Unwrap(Fleet_build([i \in 1 .. Len(origins) |->
              Unwrap(ShipKind_ship(COMPOSITION[i], origins[i], orientation))]))

RowsFleet == PlacedFleet(<<Cell(0, 0), Cell(0, 2), Cell(0, 4), Cell(0, 6), Cell(0, 8)>>, "Horizontal")
ColumnsFleet == PlacedFleet(<<Cell(0, 0), Cell(2, 0), Cell(4, 0), Cell(6, 0), Cell(8, 0)>>, "Vertical")

\* A fleet after hits at the given cells.
RECURSIVE HitAll(_, _)
HitAll(fleet, cells) ==
    IF cells = <<>> THEN fleet
    ELSE HitAll(Fleet_hit_at(fleet, Head(cells)).fleet, Tail(cells))

\* The sequence without its k-th element.
Without(seq, k) == SubSeq(seq, 1, k - 1) \o SubSeq(seq, k + 1, Len(seq))

\* The hits a human fleet may have taken before it is handed to the game: none,
\* all of its cells, or all but one (every fourth cell in turn is the one left).
PreHits ==
    LET cells == Fleet_occupied_cells(RowsFleet)
    IN  {<<>>, cells} \cup { Without(cells, k) : k \in { k \in 1 .. Len(cells) : k % 4 = 1 } }

\* The shot list of an attacker: a probe in the corner, then the opponent's cells.
ShotList(opponent) == <<Cell(9, 9)>> \o Fleet_occupied_cells(opponent.fleet)

\* An attacker's next shots: the first n cells of the shot list it has not fired at.
NextShots(attacker, opponent, n) ==
    FirstOpen(ShotList(opponent), 1, n,
              [c \in Cells |-> Grid_at(attacker.grid, c) = "Empty"])

\* The human's slot and the computer's slot in Game.players.
HumanSlot(ps) == CHOOSE i \in 1 .. Len(ps) : Player_is_human(ps[i])
ComputerSlot(ps) == CHOOSE i \in 1 .. Len(ps) : ~Player_is_human(ps[i])

\* The coordinates the human submits to play_turn, among those for which the call
\* returns.
HumanMoves(ps, r) ==
    { m \in IF Game_is_ready(ps)
            THEN NextShots(ps[HumanSlot(ps)], ps[ComputerSlot(ps)], HumanBranch)
            ELSE {Cell(0, 0)} :
        Game_play_turn_returns(ps, m, r) }

\* ---------------------------------------------------------------- the game

\* Game::new
Init ==
    /\ players = <<>>
    /\ last_computer_move = None
    /\ rng \in Seeds
    /\ ret = [call |-> "new", arg |-> None, result |-> Ok(None)]
    /\ attacked = <<{}, {}>>
    /\ placed = <<>>
    /\ strat = [strategy |-> NoStrategy, pc |-> "idle", entry |-> NoStrategy]
    /\ tui = NoTui

\* The human player handed to the game: a fresh player whose fleet took `hits` before.
HumanPlayer(hits) == Player_new("Human", HitAll(RowsFleet, hits))

\* The human players the model draws, computed once.
HumanPlayers == [hits \in PreHits |-> HumanPlayer(hits)]

\* set_human_player(p) for a human player whose fleet took the hits `hits` before;
\* it may be called at any time, during a match as well. The coin and the state of
\* the random source the computer fleet is built from are inputs.
SetHumanPlayerReturned(hits, human_player_first, g) ==
      /\ players' = g.players
      /\ rng' = g.rng
      /\ ret' = [call |-> "set_human_player", arg |-> Some(HumanPlayers[hits]), result |-> Ok(None)]
      /\ attacked' = IF human_player_first THEN <<SeqToSet(hits), {}>>
                     ELSE <<{}, SeqToSet(hits)>>
      /\ UNCHANGED <<last_computer_move, placed, strat, tui>>

SetHumanPlayer(hits, human_player_first, seed) ==
    SetHumanPlayerReturned(hits, human_player_first,
        Game_set_human_player(players, HumanPlayers[hits], human_player_first, seed))

\* play_turn(human_move)
PlayTurnReturned(human_move, t) ==
    /\ players' = t.players
    /\ last_computer_move' = t.last_computer_move
    /\ rng' = t.rng
    /\ ret' = [call |-> "play_turn", arg |-> Some(human_move), result |-> t.result,
               moves |-> t.moves]
    /\ attacked' = [i \in 1 .. 2 |->
          attacked[i] \cup { t.moves[k][2] : k \in { k \in 1 .. Len(t.moves) : t.moves[k][1] # i } }]
    /\ UNCHANGED <<placed, strat, tui>>

PlayTurn(human_move) ==
    PlayTurnReturned(human_move, Game_play_turn(players, last_computer_move, human_move, rng))

Next ==
    \/ \E hits \in PreHits : \E first \in BOOLEAN : \E seed \in Seeds :
          SetHumanPlayer(hits, first, seed)
    \/ \E human_move \in HumanMoves(players, rng) : PlayTurn(human_move)

Spec == Init /\ [][Next]_vars

\* ---------------------------------------------------------------- a match the human cannot win

\* A fleet laid out with the aircraft carrier on row 10 (cells A10 .. E10).
EdgeFleet == PlacedFleet(<<Cell(0, 9), Cell(0, 7), Cell(0, 5), Cell(0, 3), Cell(0, 1)>>, "Horizontal")

\* A game that set_human_player has handed a player with that fleet.
InitSiege ==
    /\ \E seed \in Seeds : \E human_player_first \in BOOLEAN :
          /\ players = Game_set_human_player(<<>>, Player_new("player 1", EdgeFleet),
                                             human_player_first, seed).players
          /\ rng = Game_set_human_player(<<>>, Player_new("player 1", EdgeFleet),
                                         human_player_first, seed).rng
    /\ last_computer_move = None
    /\ ret = [call |-> "set_human_player", arg |-> Some(Player_new("player 1", EdgeFleet)),
              result |-> Ok(None)]
    /\ attacked = <<{}, {}>>
    /\ placed = <<>>
    /\ strat = [strategy |-> NoStrategy, pc |-> "idle", entry |-> NoStrategy]
    /\ tui = NoTui

\* play_turn(J10), whenever the call returns: the human fires at the corner J10,
\* where no fleet built at random has a ship, round after round.
SiegeTurn ==
    /\ Game_is_ready(players)
    /\ Game_play_turn_returns(players, Cell(9, 9), rng)
    /\ PlayTurn(Cell(9, 9))

NextSiege == SiegeTurn

SpecSiege == InitSiege /\ [][NextSiege]_vars

\* ---------------------------------------------------------------- a duel of two players

\* The fleets the second player of a duel may hold: the two hand-laid fixtures and
\* the fleets built at random from the seeds.
DuelFleets ==
    {RowsFleet, ColumnsFleet} \cup { Fleet_build_random(seed).val : seed \in Seeds }

\* Two fresh players without strategies, as in the player tests.
InitDuel ==
    /\ \E fleet \in DuelFleets :
          players = <<Player_new("One", RowsFleet), Player_new("Two", fleet)>>
    /\ last_computer_move = None
    /\ rng = 0
    /\ ret = [call |-> "new", arg |-> None, result |-> Ok(None)]
    /\ attacked = <<{}, {}>>
    /\ placed = <<>>
    /\ strat = [strategy |-> NoStrategy, pc |-> "idle", entry |-> NoStrategy]
    /\ tui = NoTui

\* The cells a duellist fires at: the next ones of its shot list (the second player
\* stops after ReplyShots cells), or once more the first ship cell if already fired at.
DuelShots(i) ==
    LET list == IF i = 1 THEN ShotList(players[3 - i])
                ELSE SubSeq(ShotList(players[3 - i]), 1, ReplyShots)
        open == [c \in Cells |-> Grid_at(players[i].grid, c) = "Empty"]
    IN  FirstOpen(list, 1, DuelBranch, open) \cup { c \in {list[2]} : ~open[c] }

AttackResolved(i, cell, a) ==
    /\ players' = [players EXCEPT ![i] = a.self, ![3 - i] = a.opponent]
    /\ ret' = [call |-> "attack", arg |-> Some(<<i, cell>>), result |-> Ok(a.ship_hit)]
    /\ attacked' = [attacked EXCEPT ![3 - i] = @ \cup {cell}]
    /\ UNCHANGED <<last_computer_move, rng, placed, strat, tui>>

\* players[i].attack(&mut players[3 - i], &cell)
Attack(i, cell) == AttackResolved(i, cell, Player_attack(players[i], players[3 - i], cell))

NextDuel == \E i \in 1 .. 2 : \E cell \in DuelShots(i) : Attack(i, cell)

SpecDuel == InitDuel /\ [][NextDuel]_vars

\* ---------------------------------------------------------------- properties of the game

\* A player all of whose ships have every segment hit (state mask 0).
Lost(player) == \A k \in 1 .. Len(player.fleet) : player.fleet[k].state = 0

\* The game holds two players and none of them has lost.
Ready == Len(players) = 2 /\ ~Lost(players[1]) /\ ~Lost(players[2])

\* The last call was play_turn and it returned Ok.
TurnPlayed == ret.call = "play_turn" /\ ret.result.ok

\* C1: play_turn on a game that is not ready (fewer than two players, or a player
\* has lost) returns the error "Game is not ready or already over" and performs no
\* attack: players, shot grids, fleets, the last computer move and the random
\* source are as before.
C1_NotReadyRejected ==
    [][(ret'.call = "play_turn" /\ ~Ready) =>
          /\ ret'.result = Err("Game is not ready or already over")
          /\ players' = players
          /\ attacked' = attacked
          /\ last_computer_move' = last_computer_move
          /\ rng' = rng]_vars

\* play_turn was refused on a finished match that had recorded a computer move.
C1_Witness ==
    /\ ret.call = "play_turn" /\ ~ret.result.ok
    /\ Len(players) = 2
    /\ \E i \in 1 .. 2 : Lost(players[i]) /\ ~players[i].human
    /\ IsSome(last_computer_move)

\* C2: when the first mover's attack sinks the second mover's fleet the round stops
\* there: play_turn reports the first mover as the winner (Some(true) when the
\* first mover is the human, Some(false) when it is the computer), the first mover
\* has attacked, and the second mover makes no attack, so the first mover's fleet
\* and the second mover's shot grid and strategy are unchanged.
C2_FirstWinStopsRound ==
    [][(TurnPlayed' /\ Lost(players'[2])) =>
          /\ ret'.result = Ok(Some(players[1].human))
          /\ players'[1].grid # players[1].grid
          /\ players'[1].fleet = players[1].fleet
          /\ players'[2].grid = players[2].grid
          /\ players'[2].strategy = players[2].strategy
          /\ attacked'[1] = attacked[1]]_vars

\* A round was won by the player stored first.
C2_Witness == TurnPlayed /\ Len(players) = 2 /\ Lost(players[2])

\* C3: a successful play_turn returns Some(true) exactly when the computer's fleet
\* is sunk, Some(false) exactly when the human's fleet is sunk, None exactly when
\* neither is, and Some(_) exactly when is_over() holds afterwards.
C3_ResultNamesWinner ==
    TurnPlayed =>
        /\ ret.result.val = Some(TRUE) <=> Lost(players[ComputerSlot(players)])
        /\ ret.result.val = Some(FALSE) <=> Lost(players[HumanSlot(players)])
        /\ ret.result.val = None <=> (~Lost(players[1]) /\ ~Lost(players[2]))
        /\ IsSome(ret.result.val) <=> Game_is_over(players)

\* A round ended with the computer as the winner.
C3_Witness == TurnPlayed /\ ret.result.val = Some(FALSE)

\* The strategy of the player in slot i chose a move in this step.
StrategyMoved(i) ==
    Len(players'[i].strategy.moves) = Len(players[i].strategy.moves) + 1

\* The move the strategy of slot i chose in this step.
ChosenMove(i) == players'[i].strategy.moves[Len(players'[i].strategy.moves)]

\* The candidate stack of slot i ends, after this step, with the cells notify_hit
\* pushes for a hit on a ship of the given kind at the move just chosen.
Notified(i, kind) ==
    LET st == players'[i].strategy
        pushed == NotifyHitFrom(st.moves, ChosenMove(i), 1, ShipKind_size(kind))
        n == Len(st.candidates_moves)
    IN  /\ n >= Len(pushed)
        /\ SubSeq(st.candidates_moves, n - Len(pushed) + 1, n) = pushed

\* C4: whenever a move obtained from a player's strategy in play_turn hits a ship of
\* the opponent, notify_hit(kind of the ship hit) has been invoked on that strategy
\* when play_turn returns: the candidate stack holds the cells around the hit.
C4_HitNotified ==
    [][TurnPlayed' =>
          \A i \in 1 .. 2 :
              (StrategyMoved(i) /\ IsSome(Fleet_hit_at(players[3 - i].fleet, ChosenMove(i)).kind))
                  => Notified(i, Unwrap(Fleet_hit_at(players[3 - i].fleet, ChosenMove(i)).kind))]_vars

\* C5: after every successful play_turn in which a move came from a strategy,
\* last_computer_move is the coordinate the strategy chose in that round, the round
\* in which the computer's attack wins the match included.
C5_LastMoveRecorded ==
    [][TurnPlayed' =>
          \A i \in 1 .. 2 :
              StrategyMoved(i) => last_computer_move' = Some(ChosenMove(i))]_vars

\* C6: the order of the two players is the one set_human_player stored: no play_turn
\* call changes which player sits in which slot, and in every successful round the
\* player in the first slot attacks.
C6_OrderKept ==
    [][ret'.call = "play_turn" =>
          /\ Len(players') = Len(players)
          /\ \A i \in 1 .. Len(players) :
                /\ players'[i].name = players[i].name
                /\ players'[i].human = players[i].human
                /\ players'[i].strategy.kind = players[i].strategy.kind
          /\ TurnPlayed' => players'[1].grid # players[1].grid]_vars

\* Two full rounds at least were played in a match the computer attacks first in.
C6_Witness == TurnPlayed /\ Len(players[1].strategy.moves) >= 2

\* The cells a ship covers, from its origin, orientation and size.
ShipCells(ship) ==
    { [x |-> ship.first_cell.x + (IF ship.orientation = "Horizontal" THEN k ELSE 0),
       y |-> ship.first_cell.y + (IF ship.orientation = "Horizontal" THEN 0 ELSE k)] :
        k \in 0 .. (ship.ship_size - 1) }

\* A fleet as built for a new player: one intact ship per kind in the order of the
\* composition, all on the board, no two sharing a cell.
FreshFleet(fleet) ==
    /\ Len(fleet) = 5
    /\ \A k \in 1 .. 5 :
          /\ fleet[k].ship_size = <<5, 4, 3, 3, 2>>[k]
          /\ fleet[k].state = 2 ^ fleet[k].ship_size - 1
          /\ ShipCells(fleet[k]) \subseteq Cells
    /\ \A k \in 1 .. 5 : \A j \in 1 .. 5 :
          k # j => ShipCells(fleet[k]) \cap ShipCells(fleet[j]) = {}

\* A computer player as set_human_player creates it.
NewComputer(c) ==
    /\ c.name = "Computer"
    /\ ~c.human
    /\ c.strategy = [kind |-> "SmartStrategy", moves |-> <<>>, candidates_moves |-> <<>>]
    /\ \A cell \in Cells : c.grid[cell.y][cell.x] = "Empty"
    /\ FreshFleet(c.fleet)

\* C7: after set_human_player(p) for a human player p the game holds exactly two
\* players, p as given and one new computer player with a freshly built fleet and
\* the hunt-and-target strategy, whatever players it held before; is_ready() is
\* true when p's fleet is not sunk.
C7_HumanAssigned ==
    ret.call = "set_human_player" =>
        /\ Len(players) = 2
        /\ \E i \in 1 .. 2 :
              /\ players[i] = Unwrap(ret.arg)
              /\ players[i].human
              /\ NewComputer(players[3 - i])
        /\ ~Lost(Unwrap(ret.arg)) => Game_is_ready(players)

\* A human player with a fleet afloat was assigned after an earlier match, of which
\* the last computer move is still recorded.
C7_Witness ==
    /\ ret.call = "set_human_player"
    /\ ~Lost(Unwrap(ret.arg))
    /\ IsSome(last_computer_move)

\* C8: once is_over() holds, a play_turn call fails and leaves both fleets, both
\* shot grids, the order of the players and last_computer_move unchanged, so
\* is_over() holds after it as well.
C8_OverIsTerminal ==
    [][(Game_is_over(players) /\ ret'.call = "play_turn") =>
          /\ ~ret'.result.ok
          /\ Len(players') = 2
          /\ \A i \in 1 .. 2 :
                /\ players'[i].fleet = players[i].fleet
                /\ players'[i].grid = players[i].grid
                /\ players'[i].name = players[i].name
                /\ players'[i].human = players[i].human
          /\ last_computer_move' = last_computer_move
          /\ Game_is_over(players')]_vars

\* play_turn was called on a match the human had lost.
C8_Witness ==
    /\ ret.call = "play_turn" /\ ~ret.result.ok
    /\ Game_is_over(players)
    /\ Lost(players[HumanSlot(players)])

\* C34: is_ready() and is_over() are never both true; both are false exactly when
\* the game does not hold two players, and with two players exactly one of them is
\* true: is_over() when a player has lost, is_ready() otherwise.
C34_ReadyXorOver ==
    /\ ~(Game_is_ready(players) /\ Game_is_over(players))
    /\ (~Game_is_ready(players) /\ ~Game_is_over(players)) <=> Len(players) # 2
    /\ Len(players) = 2 =>
          /\ Game_is_over(players) <=> (Lost(players[1]) \/ Lost(players[2]))
          /\ Game_is_ready(players) <=> ~(Lost(players[1]) \/ Lost(players[2]))

\* The game was handed a human player whose fleet is sunk: two players, and over.
C34_Witness ==
    /\ ret.call = "set_human_player"
    /\ Len(players) = 2
    /\ Game_is_over(players)
    /\ ~Game_is_ready(players)

\* ---------------------------------------------------------------- properties of the players

\* The kinds of the ships of a fleet that cover the cell.
KindsAt(fleet, cell) ==
    { <<"AircraftCarrier", "Battleship", "Cruiser", "Submarine", "Destroyer">>[k] :
        k \in { k \in 1 .. Len(fleet) : cell \in ShipCells(fleet[k]) } }

\* C9: players[i].attack(players[j], c) returns the kind of the ship of players[j]
\* that occupies c, or nothing; it marks cell c of the grid of players[i] Hit when a
\* ship was hit and Miss otherwise, and leaves every other cell of that grid, the
\* fleet of players[i] and the grid of players[j] as they were.
C9_AttackFrame ==
    [][ret'.call = "attack" =>
          LET i == Unwrap(ret'.arg)[1]
              c == Unwrap(ret'.arg)[2]
              kinds == KindsAt(players[3 - i].fleet, c)
          IN  /\ ret'.result.val # None <=> kinds # {}
              /\ ret'.result.val # None => Unwrap(ret'.result.val) \in kinds
              /\ players'[i].grid[c.y][c.x] = (IF kinds # {} THEN "Hit" ELSE "Miss")
              /\ \A d \in Cells \ {c} : players'[i].grid[d.y][d.x] = players[i].grid[d.y][d.x]
              /\ players'[i].fleet = players[i].fleet
              /\ players'[3 - i].grid = players[3 - i].grid
              /\ players'[i].name = players[i].name
              /\ players'[3 - i].name = players[3 - i].name]_vars

\* An attack hit a ship after another one of the same attacker had missed.
C9_Witness ==
    /\ ret.call = "attack"
    /\ ret.result.val # None
    /\ \E d \in Cells : players[Unwrap(ret.arg)[1]].grid[d.y][d.x] = "Miss"

\* C10: after any sequence of attacks a player has lost exactly when every cell of
\* every ship of its fleet has been attacked at least once.
C10_LostIffAllCellsAttacked ==
    \A i \in 1 .. Len(players) :
        Player_has_lost(players[i]) <=>
            \A k \in 1 .. Len(players[i].fleet) :
                ShipCells(players[i].fleet[k]) \subseteq attacked[i]

\* A player has lost while the other one, attacked as well, still has a ship afloat.
C10_Witness ==
    /\ Len(players) = 2
    /\ \E i \in 1 .. 2 :
          /\ Player_has_lost(players[i])
          /\ ~Player_has_lost(players[3 - i])
          /\ attacked[3 - i] # {}

\* C36: in a duel the shot grid of a player never holds Occupied; a cell of it is
\* other than Empty exactly when the player has attacked that cell, and Hit exactly
\* when the player has attacked it and it lies on a ship of the opponent; a cell that
\* is Hit or Miss is never changed by a later attack, a repeated one included.
C36_ShotGrid ==
    /\ [](\A i \in 1 .. 2 : \A c \in Cells :
            LET state == players[i].grid[c.y][c.x]
            IN  /\ state # "Occupied"
                /\ state # "Empty" <=> c \in attacked[3 - i]
                /\ state = "Hit" <=>
                      (c \in attacked[3 - i] /\ KindsAt(players[3 - i].fleet, c) # {}))
    /\ [][\A i \in 1 .. 2 : \A c \in Cells :
            players[i].grid[c.y][c.x] \in {"Hit", "Miss"} =>
                players'[i].grid[c.y][c.x] = players[i].grid[c.y][c.x]]_vars

\* A player attacked for the second time a cell it had hit, after a miss elsewhere.
C36_Witness ==
    /\ ret.call = "attack"
    /\ LET i == Unwrap(ret.arg)[1]
           c == Unwrap(ret.arg)[2]
       IN  /\ players[i].grid[c.y][c.x] = "Hit"
           /\ players[3 - i].fleet[1].state = 30
           /\ Cardinality(attacked[3 - i]) = 2
           /\ \E d \in Cells : players[i].grid[d.y][d.x] = "Miss"

\* ---------------------------------------------------------------- a single ship

\* The rows a horizontal ship, or the columns a vertical ship, is created on.
LaneCoords == { k \in Coord : k < Lanes } \cup {MAX_Y}

\* The origins handed to ShipKind::ship for an orientation, fitting or not.
Origins(orientation) ==
    IF orientation = "Horizontal"
    THEN { Cell(x, y) : x \in Coord, y \in LaneCoords }
    ELSE { Cell(x, y) : x \in LaneCoords, y \in Coord }

\* The cells of the board next to a ship: past its end, before its origin, beside it.
NearCells(ship) ==
    LET x == ship.first_cell.x
        y == ship.first_cell.y
        n == ship.ship_size
        around == IF ship.orientation = "Horizontal"
                  THEN << [x |-> x + n, y |-> y], [x |-> x - 1, y |-> y],
                          [x |-> x, y |-> y + 1], [x |-> x, y |-> y - 1] >>
                  ELSE << [x |-> x, y |-> y + n], [x |-> x, y |-> y - 1],
                          [x |-> x + 1, y |-> y], [x |-> x - 1, y |-> y] >>
    IN  SelectSeq(around, LAMBDA c : c \in Cells)

\* The cells fired at a ship: its own and the first MissProbes cells next to it.
ShipShots(ship) ==
    SeqToSet(Ship_occupied_cells(ship))
        \cup SeqToSet(SubSeq(NearCells(ship), 1, Min(MissProbes, Len(NearCells(ship)))))

\* No game, no ship yet.
InitShip ==
    /\ players = <<>>
    /\ last_computer_move = None
    /\ rng = 0
    /\ ret = [call |-> "new", arg |-> None, result |-> Ok(None)]
    /\ attacked = <<{}, {}>>
    /\ placed = <<>>
    /\ strat = [strategy |-> NoStrategy, pc |-> "idle", entry |-> NoStrategy]
    /\ tui = NoTui

\* kind.ship(first, orientation): the ship, if any, is kept as the one at hand.
CreateShip(kind, first, orientation) ==
    /\ placed = <<>>
    /\ placed' = ShipKind_ship(kind, first, orientation)
    /\ ret' = [call |-> "ship", arg |-> Some(<<kind, first, orientation>>),
               result |-> Ok(ShipKind_ship(kind, first, orientation))]
    /\ UNCHANGED <<players, last_computer_move, rng, attacked, strat, tui>>

\* ship.hit_at(&cell); `again` notes that the cell had been fired at before.
HitAt(cell) ==
    /\ Len(placed) = 1
    /\ placed' = <<Ship_hit_at(placed[1], cell).ship>>
    /\ ret' = [call |-> "hit_at", arg |-> Some(cell),
               result |-> Ok(Ship_hit_at(placed[1], cell).hit),
               again |-> cell \in attacked[1]]
    /\ attacked' = [attacked EXCEPT ![1] = @ \cup {cell}]
    /\ UNCHANGED <<players, last_computer_move, rng, strat, tui>>

\* ship.occupied_cells()
OccupiedCells ==
    /\ Len(placed) = 1
    /\ ret' = [call |-> "occupied_cells", arg |-> None,
               result |-> Ok(Ship_occupied_cells(placed[1]))]
    /\ UNCHANGED <<players, last_computer_move, rng, attacked, placed, strat, tui>>

NextShip ==
    \/ \E kind \in SeqToSet(COMPOSITION) : \E orientation \in ShipOrientation :
          \E first \in Origins(orientation) : CreateShip(kind, first, orientation)
    \/ \E cell \in (IF Len(placed) = 1 THEN ShipShots(placed[1]) ELSE {}) : HitAt(cell)
    \/ OccupiedCells

SpecShip == InitShip /\ [][NextShip]_vars

\* ---------------------------------------------------------------- properties of a ship

\* The number of cells of a kind of ship.
KindSize(kind) ==
    CASE kind = "AircraftCarrier" -> 5
      [] kind = "Battleship" -> 4
      [] kind = "Cruiser" -> 3
      [] kind = "Submarine" -> 3
      [] kind = "Destroyer" -> 2

\* C11: a ship of any kind, orientation and fitting origin is sunk once every one
\* of its cells has been hit, and is not sunk while any of its cells has not.
C11_SunkIffAllCellsHit ==
    Len(placed) = 1 =>
        (Ship_is_sunk(placed[1]) <=> ShipCells(placed[1]) \subseteq attacked[1])

\* An aircraft carrier was sunk by hits at its five cells and nowhere else.
C11_Witness ==
    /\ Len(placed) = 1
    /\ placed[1].ship_size = 5
    /\ Ship_is_sunk(placed[1])
    /\ attacked[1] = ShipCells(placed[1])

\* C12: hit_at(c) returns true exactly when c is a cell of the ship, and a hit at a
\* cell off the ship leaves the ship, its damage mask included, unchanged.
C12_HitAtReturns ==
    [][ret'.call = "hit_at" =>
          /\ ret'.result.val <=> Unwrap(ret'.arg) \in ShipCells(placed[1])
          /\ Unwrap(ret'.arg) \notin ShipCells(placed[1]) => placed' = placed]_vars

\* A damaged ship was fired at off its cells.
C12_Witness ==
    /\ ret.call = "hit_at"
    /\ ret.result.val = FALSE
    /\ placed[1].state # 0
    /\ placed[1].state # 2 ^ placed[1].ship_size - 1

\* C13: a second hit at a cell of the ship that was hit before returns true again
\* and leaves the damage mask as it was.
C13_HitAtIdempotent ==
    [][(ret'.call = "hit_at" /\ Unwrap(ret'.arg) \in attacked[1] \cap ShipCells(placed[1])) =>
          /\ ret'.result.val = TRUE
          /\ placed'[1].state = placed[1].state]_vars

\* A cell of the ship was hit for the second time.
C13_Witness == ret.call = "hit_at" /\ ret.again /\ ret.result.val = TRUE

\* The bits set in a damage mask.
MaskBits(state) == { bit \in 0 .. 7 : (state \div 2 ^ bit) % 2 = 1 }

\* C37: the damage mask of a ship only loses bits: it is always within the initial
\* mask 2^length - 1, no hit_at adds a bit or changes the origin, the length or the
\* orientation, and a sunk ship stays sunk.
C37_MaskOnlyLosesBits ==
    /\ [](Len(placed) = 1 => MaskBits(placed[1].state) \subseteq 0 .. (placed[1].ship_size - 1))
    /\ [][Len(placed) = 1 =>
             /\ Len(placed') = 1
             /\ MaskBits(placed'[1].state) \subseteq MaskBits(placed[1].state)
             /\ placed'[1].first_cell = placed[1].first_cell
             /\ placed'[1].ship_size = placed[1].ship_size
             /\ placed'[1].orientation = placed[1].orientation
             /\ (placed[1].state = 0 => placed'[1].state = 0)]_vars

\* A sunk cruiser was fired at again, at one of its cells and off its cells.
C37_Witness ==
    /\ Len(placed) = 1
    /\ placed[1].ship_size = 3
    /\ placed[1].state = 0
    /\ ret.call = "hit_at"
    /\ attacked[1] \ ShipCells(placed[1]) # {}
    /\ ret.again

\* C14: kind.ship(origin, orientation) returns a ship exactly when the origin plus
\* the size of the kind less one, along the orientation axis, is at most 9; the
\* ship returned has the size of the kind and the origin and orientation given.
C14_ShipFitsOrNone ==
    ret.call = "ship" =>
        LET kind == Unwrap(ret.arg)[1]
            first == Unwrap(ret.arg)[2]
            orientation == Unwrap(ret.arg)[3]
            long == IF orientation = "Horizontal" THEN first.x ELSE first.y
            made == ret.result.val
        IN  /\ made # None <=> long + KindSize(kind) - 1 <= 9
            /\ made # None =>
                  /\ made[1].ship_size = KindSize(kind)
                  /\ made[1].first_cell = first
                  /\ made[1].orientation = orientation
                  /\ placed = made

\* A vertical ship whose last cell would lie one row below the board was refused.
C14_Witness ==
    /\ ret.call = "ship"
    /\ ret.result.val = None
    /\ Unwrap(ret.arg)[3] = "Vertical"
    /\ Unwrap(ret.arg)[2].y + KindSize(Unwrap(ret.arg)[1]) - 1 = 10

\* C15: occupied_cells() of a created ship lists as many cells as the ship is long,
\* all on the board, the k-th one k - 1 cells after the origin along the
\* orientation axis (hence distinct and in increasing order), and a cell is listed
\* exactly when hit_at registers it.
C15_OccupiedCells ==
    ret.call = "occupied_cells" =>
        LET occ == ret.result.val
            ship == placed[1]
        IN  /\ Len(occ) = ship.ship_size
            /\ \A k \in 1 .. Len(occ) :
                  /\ occ[k] \in Cells
                  /\ occ[k] = IF ship.orientation = "Horizontal"
                              THEN [x |-> ship.first_cell.x + k - 1, y |-> ship.first_cell.y]
                              ELSE [x |-> ship.first_cell.x, y |-> ship.first_cell.y + k - 1]
            /\ \A k \in 1 .. Len(occ) : \A j \in 1 .. Len(occ) : k # j => occ[k] # occ[j]
            /\ \A c \in Cells :
                  (\E k \in 1 .. Len(occ) : occ[k] = c) <=> Ship_hit_at(ship, c).hit

\* The cells of a vertical ship that ends on the last row were listed.
C15_Witness ==
    /\ ret.call = "occupied_cells"
    /\ placed[1].orientation = "Vertical"
    /\ placed[1].first_cell.y + placed[1].ship_size - 1 = 9

\* ---------------------------------------------------------------- two ships

\* The origins at which a ship of the kind fits the board in the orientation.
FittingOrigins(kind, orientation) ==
    { first \in Origins(orientation) : IsSome(ShipKind_ship(kind, first, orientation)) }

\* kind.ship(first, orientation), the ship joining the ones at hand, two at most.
AddShip(kind, first, orientation) ==
    /\ Len(placed) < 2
    /\ placed' = placed \o ShipKind_ship(kind, first, orientation)
    /\ ret' = [call |-> "ship", arg |-> Some(<<kind, first, orientation>>),
               result |-> Ok(ShipKind_ship(kind, first, orientation))]
    /\ UNCHANGED <<players, last_computer_move, rng, attacked, strat, tui>>

\* placed[i].is_overlapping(&placed[j])
IsOverlapping(i, j) ==
    /\ ret' = [call |-> "is_overlapping", arg |-> Some(<<i, j>>),
               result |-> Ok(Ship_is_overlapping(placed[i], placed[j]))]
    /\ UNCHANGED <<players, last_computer_move, rng, attacked, placed, strat, tui>>

NextPair ==
    \/ \E kind \in SeqToSet(COMPOSITION) : \E orientation \in ShipOrientation :
          \E first \in FittingOrigins(kind, orientation) : AddShip(kind, first, orientation)
    \/ \E i \in 1 .. Len(placed) : \E j \in (1 .. Len(placed)) \ {i} : IsOverlapping(i, j)

SpecPair == InitShip /\ [][NextPair]_vars

\* ---------------------------------------------------------------- properties of two ships

\* Some cell of ship b is a cell of ship a or next to one, diagonals included.
Touching(a, b) ==
    \E ca \in ShipCells(a) : \E cb \in ShipCells(b) :
        /\ ca.x - cb.x \in -1 .. 1
        /\ ca.y - cb.y \in -1 .. 1

\* The two ships of the last is_overlapping call: the receiver and the argument.
OverlapSelf == placed[Unwrap(ret.arg)[1]]
OverlapOther == placed[Unwrap(ret.arg)[2]]

\* C16: if some cell of B is a cell of A or orthogonally or diagonally adjacent to
\* a cell of A, then A.is_overlapping(B) is true.
C16_TouchingOverlaps ==
    (ret.call = "is_overlapping" /\ Touching(OverlapSelf, OverlapOther))
        => ret.result.val = TRUE

\* Two ships that share no cell and touch only at a corner were compared.
C16_Witness ==
    /\ ret.call = "is_overlapping"
    /\ Touching(OverlapSelf, OverlapOther)
    /\ ShipCells(OverlapSelf) \cap ShipCells(OverlapOther) = {}
    /\ \A ca \in ShipCells(OverlapSelf) : \A cb \in ShipCells(OverlapOther) :
          ca.x # cb.x /\ ca.y # cb.y
    /\ ret.result.val = TRUE

\* C17: if no cell of B lies on A's footprint or within one cell of it in any
\* direction, diagonals included, then A.is_overlapping(B) is false.
C17_ApartDoesNotOverlap ==
    (ret.call = "is_overlapping" /\ ~Touching(OverlapSelf, OverlapOther))
        => ret.result.val = FALSE

\* C18: A.is_overlapping(B) equals B.is_overlapping(A) for two ships that fit the board.
C18_OverlapSymmetric ==
    ret.call = "is_overlapping"
        => ret.result.val = Ship_is_overlapping(OverlapOther, OverlapSelf)

\* ---------------------------------------------------------------- building a fleet

\* The origins of the ships the builder returns: those of the fleet fixtures.
OfferOrigins ==
    { Cell_bounded(0, 2 * k) : k \in 0 .. (OfferSteps - 1) }
        \cup { Cell_bounded(2 * k, 0) : k \in 0 .. (OfferSteps - 1) }

\* Fleet::build asks its builder for a ship of the next kind, and the builder
\* returns the ship of that kind at the origin and in the orientation given; the
\* ship is pushed unless it overlaps an accepted one.
Offer(first, orientation) ==
    /\ Len(placed) < Len(COMPOSITION)
    /\ IsSome(ShipKind_ship(COMPOSITION[Len(placed) + 1], first, orientation))
    /\ placed' = FleetBuildOffer(placed,
                    Unwrap(ShipKind_ship(COMPOSITION[Len(placed) + 1], first, orientation)))
    /\ ret' = [call |-> "builder", arg |-> None, result |-> Ok(Len(placed') > Len(placed))]
    /\ UNCHANGED <<players, last_computer_move, rng, attacked, strat, tui>>

\* Fleet::build returns the fleet once a ship of each kind is accepted.
BuildReturns ==
    /\ Len(placed) = Len(COMPOSITION)
    /\ ret.call = "builder"
    /\ ret' = [call |-> "build", arg |-> None, result |-> Ok(placed)]
    /\ UNCHANGED <<players, last_computer_move, rng, attacked, placed, strat, tui>>

NextBuild ==
    \/ \E first \in OfferOrigins : \E orientation \in ShipOrientation : Offer(first, orientation)
    \/ BuildReturns

SpecBuild == InitShip /\ [][NextBuild]_vars

\* ---------------------------------------------------------------- building a fleet at random

\* The rounds of the loop of Fleet::build that are followed ship by ship.
RandomRounds == 1

\* The ships ShipKind::random can return for each kind: the kind's ship at a cell
\* Cell::random can return, in either orientation, when it fits the board.
RandomShips ==
    [kind \in SeqToSet(COMPOSITION) |->
        { Unwrap(ShipKind_ship(kind, p[1], p[2])) :
            p \in { q \in RandomCells \X ShipOrientation :
                        IsSome(ShipKind_ship(kind, q[1], q[2])) } }]

\* Fleet::build(|kind| kind.random()): the builder returns one of the ships
\* ShipKind::random can return for the kind asked for.
RandomOffer(first, orientation) ==
    /\ Len(placed) < RandomRounds
    /\ Offer(first, orientation)

NextRandomBuild ==
    \E first \in RandomCells : \E orientation \in ShipOrientation :
        RandomOffer(first, orientation)

SpecRandomBuild == InitShip /\ [][NextRandomBuild]_vars

\* C19: a fleet returned by Fleet::build holds five ships, of the sizes of the kinds
\* Aircraft Carrier, Battleship, Cruiser, Submarine, Destroyer in this order, and
\* no two of them share a cell or are orthogonally or diagonally adjacent.
C19_BuiltFleet ==
    ret.call = "build" =>
        LET fleet == ret.result.val
        IN  /\ Len(fleet) = 5
            /\ \A k \in 1 .. Len(fleet) :
                  /\ fleet[k].ship_size =
                        KindSize(<<"AircraftCarrier", "Battleship", "Cruiser",
                                   "Submarine", "Destroyer">>[k])
                  /\ ShipCells(fleet[k]) \subseteq Cells
            /\ \A k \in 1 .. Len(fleet) : \A j \in 1 .. Len(fleet) :
                  k # j => ~Touching(fleet[k], fleet[j])

\* A fleet with ships of both orientations was returned.
C19_Witness ==
    /\ ret.call = "build"
    /\ \E k \in 1 .. 5 : ret.result.val[k].orientation = "Horizontal"
    /\ \E k \in 1 .. 5 : ret.result.val[k].orientation = "Vertical"

\* The ships of the kind that Fleet::build pushes when its builder returns them
\* with the given ships accepted.
Accepted(ships, kind) ==
    { d \in RandomShips[kind] : FleetBuildOffer(ships, d) = Append(ships, d) }

\* For the j-th kind: the ships of each earlier kind that make Fleet::build
\* discard the ship d, being accepted before it.
Rejecters ==
    [j \in 1 .. Len(COMPOSITION) |->
        [d \in RandomShips[COMPOSITION[j]] |->
            [i \in 1 .. (j - 1) |->
                { s \in RandomShips[COMPOSITION[i]] : Ship_is_overlapping(s, d) }]]]

\* Two ships of the j-th kind that no single ship of a kind asked for after the
\* first n and before the j-th makes Fleet::build discard both.
Apart(n, j, d, e) ==
    /\ d # e
    /\ \A i \in (n + 1) .. (j - 1) : Rejecters[j][d][i] \cap Rejecters[j][e][i] = {}

\* Some m of the ships `open` of the j-th kind are apart two by two.
RECURSIVE Spread(_, _, _, _)
Spread(n, j, open, m) ==
    \/ m = 0
    \/ \E d \in open : Spread(n, j, { e \in open : Apart(n, j, d, e) }, m - 1)

\* C31: for every partial fleet Fleet::build has accepted, some ship of the next kind
\* that the random builder can produce (an origin Cell::random can return, either
\* orientation, fitting the board) is accepted, so that under a fair random source
\* the loop for the kind ends.  For the fleet accepted so far this is said as it
\* stands.  For every longer fleet it is said ahead, from each aircraft carrier the
\* builder can have had accepted (n = 1): for the j-th kind, j - n ships that the
\* carrier lets through are apart two by two; the j - 1 - n ships accepted in
\* between each make Fleet::build discard one of them at most, so one is left to be
\* accepted when the j-th kind is asked for, whatever the ships in between are.
C31_NextKindFits ==
    Len(placed) < Len(COMPOSITION) =>
        /\ Accepted(placed, COMPOSITION[Len(placed) + 1]) # {}
        /\ Len(placed) = 1 =>
              \A j \in (Len(placed) + 1) .. Len(COMPOSITION) :
                  Spread(Len(placed), j, Accepted(placed, COMPOSITION[j]), j - Len(placed))

\* An aircraft carrier that stands upright in the middle of the board is accepted
\* and the battleship is awaited.
C31_Witness ==
    /\ Len(placed) = 1
    /\ ret.call = "builder" /\ ret.result.val
    /\ placed[1].orientation = "Vertical"
    /\ placed[1].first_cell = Cell(4, 2)

\* C32: a pass of the loop of Fleet::build either discards the ship the builder
\* returned and keeps the accepted ships as they are, so that the builder is asked
\* again for the same kind, or accepts it after the ships it keeps; an accepted ship
\* is of the kind asked for and touches none of the ships accepted before it, so a
\* ship that touches one is discarded, and the next kind is asked for only after a
\* ship of the current kind is accepted.
C32_DiscardAndAskAgain ==
    [][ret'.call = "builder" =>
          /\ ret'.result.val = (placed' # placed)
          /\ \/ placed' = placed
             \/ /\ Len(placed') = Len(placed) + 1
                /\ SubSeq(placed', 1, Len(placed)) = placed
                /\ placed'[Len(placed')].ship_size = KindSize(COMPOSITION[Len(placed')])
                /\ \A k \in 1 .. Len(placed) : ~Touching(placed[k], placed'[Len(placed')])]_vars

\* With three ships accepted, the ship the builder returned for the fourth kind was
\* discarded.
C32_Witness ==
    /\ ret.call = "builder"
    /\ ~ret.result.val
    /\ Len(placed) = 3

\* ---------------------------------------------------------------- properties of a fleet

\* The ship with the segment at the cell recorded as hit: its bit in the mask is clear.
WithSegmentHit(ship, cell) ==
    LET bit == (cell.x - ship.first_cell.x) + (cell.y - ship.first_cell.y)
    IN  [ship EXCEPT !.state = IF (@ \div 2 ^ bit) % 2 = 1 THEN @ - 2 ^ bit ELSE @]

\* C20: fleet.hit_at(c), as made by an attack on the fleet's owner, returns the kind
\* of the first ship in the order of the composition whose cells contain c and
\* records the hit on that ship only; when no ship covers c it returns nothing and
\* the fleet is unchanged.
C20_FleetHitAt ==
    [][ret'.call = "attack" =>
          LET c == Unwrap(ret'.arg)[2]
              before == players[3 - Unwrap(ret'.arg)[1]].fleet
              after == players'[3 - Unwrap(ret'.arg)[1]].fleet
              on == { k \in 1 .. Len(before) : c \in ShipCells(before[k]) }
          IN  /\ on = {} => (ret'.result.val = None /\ after = before)
              /\ on # {} =>
                    LET first == CHOOSE k \in on : \A j \in on : k <= j
                    IN  /\ ret'.result.val =
                               Some(<<"AircraftCarrier", "Battleship", "Cruiser",
                                      "Submarine", "Destroyer">>[first])
                        /\ after = [before EXCEPT ![first] = WithSegmentHit(@, c)]]_vars

\* The submarine of a fleet was hit while its other ships were intact.
C20_Witness ==
    /\ ret.call = "attack"
    /\ ret.result.val = Some("Submarine")
    /\ LET fleet == players[3 - Unwrap(ret.arg)[1]].fleet
       IN  /\ fleet[4].state # 7
           /\ fleet[5].state = 3

\* ---------------------------------------------------------------- a round of the game

\* The grid after an attack at the cell on the fleet: Hit on a ship, Miss otherwise.
GridAfterAttack(grid, fleet, cell) ==
    [y \in DOMAIN grid |-> [x \in DOMAIN grid[y] |->
        IF x = cell.x /\ y = cell.y
        THEN (IF KindsAt(fleet, cell) # {} THEN "Hit" ELSE "Miss")
        ELSE grid[y][x]]]

\* The fleet after an attack at the cell: the segment at the cell is recorded as hit.
FleetAfterAttack(fleet, cell) ==
    [k \in DOMAIN fleet |->
        IF cell \in ShipCells(fleet[k]) THEN WithSegmentHit(fleet[k], cell) ELSE fleet[k]]

\* C33: in a play_turn round that returns no winner each of the two players makes
\* exactly one attack, the player stored first before the player stored second; the
\* human attacks at the coordinate supplied and the computer at the cell its
\* strategy's next_move returned, which was called once: its history grew by that
\* one cell.  Nothing else of the two players changes.
C33_OneAttackEach ==
    [][(TurnPlayed' /\ ret'.result.val = None) =>
          LET h == HumanSlot(players)
              c == ComputerSlot(players)
              human_move == Unwrap(ret'.arg)
          IN  /\ players'[c].strategy.moves =
                    Append(players[c].strategy.moves, ChosenMove(c))
              /\ players'[h].strategy = players[h].strategy
              /\ Len(ret'.moves) = 2
              /\ ret'.moves[1][1] = 1 /\ ret'.moves[2][1] = 2
              /\ ret'.moves[h][2] = human_move
              /\ ret'.moves[c][2] = ChosenMove(c)
              /\ players'[h].grid = GridAfterAttack(players[h].grid, players[c].fleet, human_move)
              /\ players'[c].fleet = FleetAfterAttack(players[c].fleet, human_move)
              /\ players'[c].grid = GridAfterAttack(players[c].grid, players[h].fleet, ChosenMove(c))
              /\ players'[h].fleet = FleetAfterAttack(players[h].fleet, ChosenMove(c))]_vars

\* A round without a winner in which both attacks hit a ship, the computer having
\* attacked first.
C33_Witness ==
    /\ TurnPlayed /\ ret.result.val = None
    /\ ~players[1].human
    /\ players[2].grid[Unwrap(ret.arg).y][Unwrap(ret.arg).x] = "Hit"
    /\ IsSome(last_computer_move)
    /\ players[1].grid[Unwrap(last_computer_move).y][Unwrap(last_computer_move).x] = "Hit"

\* C35: whatever valid fleet the human has laid out, the computer can win: the
\* rounds of play_turn can only come to an end with a fleet sunk, so a game that is
\* still ready for a round that play_turn can no longer play does not exist; the
\* computer gets to attack every cell of the board, those of row 10 and column J
\* included, before it runs out of cells.
C35_ComputerCanWin ==
    (Game_is_ready(players) /\ ~Game_play_turn_returns(players, Cell(9, 9), rng))
        => Lost(players[HumanSlot(players)])

\* ---------------------------------------------------------------- a strategy on its own

\* The u8 values a draw of the random source is taken from: one inside the board
\* and the one the reduction wraps to zero.
DrawBytes == {5, MAX_X}

\* A history holding every cell of columns 0 .. 8 and rows 0 .. 8, row by row, as
\* left by eighty-one calls of next_move.
InnerHistory == [k \in 1 .. 81 |-> Cell((k - 1) % 9, (k - 1) \div 9)]

\* The strategies a run starts from: the random one, a new smart one, and a smart
\* one with that history and an empty stack.
StartStrategies ==
    { RandomStrategy, SmartStrategy_new,
      [kind |-> "SmartStrategy", moves |-> InnerHistory, candidates_moves |-> <<>>] }

\* The cells the draws of a run can give.
DrawCells == { Cell_random_of(a, b) : a \in DrawBytes, b \in DrawBytes }

\* The same history before the moves at those cells were made.
LateHistory == SelectSeq(InnerHistory, LAMBDA c : c \notin DrawCells)

\* The strategies of a run that starts late in a match.
LateStrategies ==
    { RandomStrategy,
      [kind |-> "SmartStrategy", moves |-> InnerHistory, candidates_moves |-> <<>>],
      [kind |-> "SmartStrategy", moves |-> LateHistory, candidates_moves |-> <<>>] }

InitStrategyFrom(starts) ==
    /\ players = <<>>
    /\ last_computer_move = None
    /\ rng = 0
    /\ ret = [call |-> "new", arg |-> None, result |-> Ok(None)]
    /\ attacked = <<{}, {}>>
    /\ placed = <<>>
    /\ tui = NoTui
    /\ \E strategy \in starts :
          strat = [strategy |-> strategy, pc |-> "idle", entry |-> strategy,
                   drawn |-> None, calls |-> 0, notifies |-> 0]

InitStrategy == InitStrategyFrom(StartStrategies)

\* RandomStrategy::next_move with the two values drawn.
RandomNextMove(a, b) ==
    /\ strat.strategy.kind = "RandomStrategy"
    /\ ret' = [call |-> "next_move", arg |-> Some(<<a, b>>),
               result |-> Ok(Some(Cell_random_of(a, b)))]
    /\ UNCHANGED <<players, last_computer_move, rng, attacked, placed, strat, tui>>

\* SmartStrategy::next_move is entered; `entry` keeps the strategy as it was then
\* and `drawn` the last cell drawn in the call, if any.
SmartNextMoveCall ==
    /\ strat.strategy.kind = "SmartStrategy"
    /\ strat.pc = "idle"
    /\ strat.calls < MaxCalls
    /\ strat' = [strat EXCEPT !.pc = "loop", !.entry = strat.strategy, !.drawn = None,
                              !.calls = @ + 1]
    /\ ret' = [call |-> "next_move", arg |-> None, result |-> Ok(None)]
    /\ UNCHANGED <<players, last_computer_move, rng, attacked, placed, tui>>

\* One pass of the loop of SmartStrategy::next_move with the values a draw would
\* give: it either leaves the loop, records the move and returns it, or goes round again.
SmartNextMovePassed(pass) ==
    IF SmartNextBreaks(strat.strategy.moves, pass.cell)
    THEN /\ strat' = [strat EXCEPT
                         !.strategy = SmartNextMoveFound(strat.strategy,
                                          [cell |-> pass.cell, candidates |-> pass.candidates,
                                           rng |-> rng]).strategy,
                         !.pc = "idle",
                         !.drawn = IF pass.popped THEN @ ELSE Some(pass.cell)]
         /\ ret' = [call |-> "next_move", arg |-> None, result |-> Ok(Some(pass.cell))]
    ELSE /\ strat' = [strat EXCEPT !.strategy.candidates_moves = pass.candidates,
                                   !.drawn = IF pass.popped THEN @ ELSE Some(pass.cell)]
         /\ UNCHANGED ret

SmartNextMovePass(a, b) ==
    /\ strat.pc = "loop"
    /\ SmartNextMovePassed(SmartNextPass(strat.strategy.candidates_moves, Cell_random_of(a, b)))
    /\ UNCHANGED <<players, last_computer_move, rng, attacked, placed, tui>>

\* strategy.notify_hit(kind) between two moves; it needs a last move.
NotifyHit(kind) ==
    /\ strat.strategy.kind = "SmartStrategy"
    /\ strat.pc = "idle"
    /\ strat.strategy.moves # <<>>
    /\ strat.notifies < MaxNotifies
    /\ strat' = [strat EXCEPT !.strategy = SmartStrategy_notify_hit(strat.strategy, kind),
                              !.entry = strat.strategy,
                              !.notifies = @ + 1]
    /\ ret' = [call |-> "notify_hit", arg |-> Some(kind), result |-> Ok(None)]
    /\ UNCHANGED <<players, last_computer_move, rng, attacked, placed, tui>>

NextStrategy ==
    \/ \E a \in DrawBytes : \E b \in DrawBytes : RandomNextMove(a, b)
    \/ SmartNextMoveCall
    \/ \E a \in DrawBytes : \E b \in DrawBytes : SmartNextMovePass(a, b)
    \/ \E kind \in SeqToSet(COMPOSITION) : NotifyHit(kind)

SpecStrategy == InitStrategy /\ [][NextStrategy]_vars

\* Late in a match, with a random source that in the long run gives every value it
\* can give: a pass that would draw an untried cell is not put off for ever.
FairStrategy ==
    /\ InitStrategyFrom(LateStrategies)
    /\ [][NextStrategy]_vars
    /\ \A a \in DrawBytes : \A b \in DrawBytes : WF_vars(SmartNextMovePass(a, b))

\* ---------------------------------------------------------------- a cell on its own

\* The u8 values the constructors are called with.
Bytes == 0 .. ByteEdge \cup {255}

\* The characters texts are made of: letters inside and outside A-J in both cases,
\* digits, signs, a space and the characters next to the letters in code order.
FirstChars == {"A", "J", "K", "Z", "a", "j", "k", "z", "@", "[", "1", "+", " "}
TailChars == {"0", "1", "2", "5", "6", "9", "+", "-", " ", "A"}

RECURSIVE TextsOf(_)
TextsOf(n) ==
    IF n = 0 THEN {<<>>}
    ELSE TextsOf(n - 1) \cup { Append(t, ch) : t \in TextsOf(n - 1), ch \in TailChars }

\* The texts handed to from_str: the empty one, and a first character followed by
\* up to MaxTail more.
Texts == {<<>>} \cup { <<ch>> \o t : ch \in FirstChars, t \in TextsOf(MaxTail) }

\* The arguments of one call are given: two u8 values, or a text.
InitCell ==
    /\ players = <<>>
    /\ last_computer_move = None
    /\ rng = 0
    /\ attacked = <<{}, {}>>
    /\ placed = <<>>
    /\ strat = [strategy |-> NoStrategy, pc |-> "idle", entry |-> NoStrategy]
    /\ tui = NoTui
    /\ \/ \E x \in Bytes : \E y \in Bytes :
             ret = [call |-> "given", of |-> "bytes", arg |-> Some(<<x, y>>), result |-> Ok(None)]
       \/ \E s \in Texts :
             ret = [call |-> "given", of |-> "text", arg |-> Some(s), result |-> Ok(None)]

\* Cell::new(x, y)
New ==
    /\ ret.call = "given" /\ ret.of = "bytes"
    /\ ret' = [call |-> "new", of |-> "bytes", arg |-> ret.arg,
               result |-> Cell_new(Unwrap(ret.arg)[1], Unwrap(ret.arg)[2])]
    /\ UNCHANGED <<players, last_computer_move, rng, attacked, placed, strat, tui>>

\* Cell::bounded(x, y)
Bounded ==
    /\ ret.call = "given" /\ ret.of = "bytes"
    /\ ret' = [call |-> "bounded", of |-> "bytes", arg |-> ret.arg,
               result |-> Ok(Some(Cell_bounded(Unwrap(ret.arg)[1], Unwrap(ret.arg)[2])))]
    /\ UNCHANGED <<players, last_computer_move, rng, attacked, placed, strat, tui>>

\* format!("{}", cell) of a cell that Cell::new has made
Fmt ==
    /\ ret.call = "new" /\ ret.result.ok
    /\ ret' = [call |-> "fmt", of |-> "cell", arg |-> Some(ret.result.val),
               result |-> Ok(Some(Cell_fmt(ret.result.val)))]
    /\ UNCHANGED <<players, last_computer_move, rng, attacked, placed, strat, tui>>

\* Cell::from_str of a given text, or of the label just formatted; `of` tells which.
FromStr ==
    /\ ret.call \in {"given", "fmt"}
    /\ ret.call = "given" => ret.of = "text"
    /\ LET s == IF ret.call = "fmt" THEN Unwrap(ret.result.val) ELSE Unwrap(ret.arg)
       IN  ret' = [call |-> "from_str", of |-> IF ret.call = "fmt" THEN "label" ELSE "text",
                   arg |-> Some(s), result |-> Cell_from_str(s),
                   cell |-> IF ret.call = "fmt" THEN ret.arg ELSE None]
    /\ UNCHANGED <<players, last_computer_move, rng, attacked, placed, strat, tui>>

\* cell.move_left(), move_right(), move_up() or move_down() on the cell Cell::new
\* has made or an earlier move has left.
Move(direction) ==
    /\ ret.call \in {"new", "move"}
    /\ ret.result.ok
    /\ ret' = [call |-> "move", of |-> direction, arg |-> Some(ret.result.val),
               result |-> Ok(CASE direction = "move_left" -> Cell_move_left(ret.result.val)
                               [] direction = "move_right" -> Cell_move_right(ret.result.val)
                               [] direction = "move_up" -> Cell_move_up(ret.result.val)
                               [] direction = "move_down" -> Cell_move_down(ret.result.val))]
    /\ UNCHANGED <<players, last_computer_move, rng, attacked, placed, strat, tui>>

NextCell ==
    \/ New
    \/ Bounded
    \/ Fmt
    \/ FromStr
    \/ \E direction \in {"move_left", "move_right", "move_up", "move_down"} : Move(direction)

SpecCell == InitCell /\ [][NextCell]_vars

\* The move that undoes a move.
Opposite(direction) ==
    CASE direction = "move_left" -> "move_right"
      [] direction = "move_right" -> "move_left"
      [] direction = "move_up" -> "move_down"
      [] direction = "move_down" -> "move_up"

\* C38: the moves of the cursor wrap around and stay on the board: after any
\* sequence of them both coordinates are in 0 .. 9; move_left takes x = 0 to 9 and
\* any other x one down, move_right takes x = 9 to 0 and any other x one up, and
\* likewise move_up and move_down on y; a move leaves the other coordinate alone,
\* and a move followed by its opposite gives the cell back.
C38_MovesWrap ==
    /\ [](ret.call = "move" =>
            LET before == Unwrap(ret.arg)
                after == ret.result.val
            IN  /\ after.x \in 0 .. 9 /\ after.y \in 0 .. 9
                /\ ret.of = "move_left" =>
                      (after.y = before.y /\ after.x = IF before.x = 0 THEN 9 ELSE before.x - 1)
                /\ ret.of = "move_right" =>
                      (after.y = before.y /\ after.x = IF before.x = 9 THEN 0 ELSE before.x + 1)
                /\ ret.of = "move_up" =>
                      (after.x = before.x /\ after.y = IF before.y = 0 THEN 9 ELSE before.y - 1)
                /\ ret.of = "move_down" =>
                      (after.x = before.x /\ after.y = IF before.y = 9 THEN 0 ELSE before.y + 1))
    /\ [][(ret.call = "move" /\ ret'.call = "move" /\ ret'.of = Opposite(ret.of)) =>
             ret'.result.val = Unwrap(ret.arg)]_vars

\* The cursor was moved right from column J and wrapped round to column A.
C38_Witness ==
    /\ ret.call = "move" /\ ret.of = "move_right"
    /\ Unwrap(ret.arg).x = 9
    /\ ret.result.val.x = 0

\* ---------------------------------------------------------------- the setup screen

\* SetupStateModel::SHIP_KINDS (tui/widgets/setup.rs)
SHIP_KINDS == <<"AircraftCarrier", "Battleship", "Cruiser", "Submarine", "Destroyer">>

\* kind_iter.next().cloned() after n kinds were taken from the iterator.
KindIterNext(n) == IF n < Len(SHIP_KINDS) THEN Some(SHIP_KINDS[n + 1]) ELSE None

\* SetupStateModel::default: the cursor enabled at A1, the first kind current, the
\* orientation horizontal; `moves` counts the cursor moves made.  The ships placed
\* are the variable placed.
SetupStateModel_default ==
    [screen |-> "setup", cursor |-> Cell_bounded(0, 0), current_kind |-> KindIterNext(0),
     kind_iter |-> 1, current_orientation |-> "Horizontal", moves |-> 0]

\* The Enter key: [model, ships].  The ship of the current kind under the cursor is
\* placed if there is a current kind, the ship fits and SetupEnter keeps it; then
\* the next kind of the iterator becomes current.
SetupEnterKey(model, ships) ==
    IF /\ IsSome(model.current_kind)
       /\ IsSome(ShipKind_ship(Unwrap(model.current_kind), model.cursor, model.current_orientation))
       /\ SetupEnter(ships, Unwrap(ShipKind_ship(Unwrap(model.current_kind), model.cursor,
                                                 model.current_orientation))) # ships
    THEN [model |-> [model EXCEPT !.current_kind = KindIterNext(model.kind_iter),
                                  !.kind_iter = IF @ < Len(SHIP_KINDS) THEN @ + 1 ELSE @],
          ships |-> SetupEnter(ships, Unwrap(ShipKind_ship(Unwrap(model.current_kind),
                                                model.cursor, model.current_orientation)))]
    ELSE [model |-> model, ships |-> ships]

\* SetupStateModel::handle_key_events: [model, ships].  update_grid only redraws.
SetupStateModel_handle_key_events(model, ships, code) ==
    CASE code = "Left" ->
           [model |-> [model EXCEPT !.cursor = Cell_move_left(@), !.moves = @ + 1], ships |-> ships]
      [] code = "Right" ->
           [model |-> [model EXCEPT !.cursor = Cell_move_right(@), !.moves = @ + 1], ships |-> ships]
      [] code = "Up" ->
           [model |-> [model EXCEPT !.cursor = Cell_move_up(@), !.moves = @ + 1], ships |-> ships]
      [] code = "Down" ->
           [model |-> [model EXCEPT !.cursor = Cell_move_down(@), !.moves = @ + 1], ships |-> ships]
      [] code = "Enter" -> SetupEnterKey(model, ships)
      [] code \in {"h", "H"} ->
           [model |-> [model EXCEPT !.current_orientation = "Horizontal"], ships |-> ships]
      [] code \in {"v", "V"} ->
           [model |-> [model EXCEPT !.current_orientation = "Vertical"], ships |-> ships]
      [] OTHER -> [model |-> model, ships |-> ships]

\* Fleet::new(ships): the five ships as a fleet, if validate_ships passes them.
Fleet_new(ships) ==
    IF Len(ships) # Len(COMPOSITION) THEN Err("Invalid number of ships")
    ELSE IF ~validate_ships(ships).ok THEN Err("Ships overlap")
    ELSE Ok(ships)

\* The setup screen as the interface opens it.
InitSetup ==
    /\ players = <<>>
    /\ last_computer_move = None
    /\ rng = 0
    /\ ret = [call |-> "new", arg |-> None, result |-> Ok(None)]
    /\ attacked = <<{}, {}>>
    /\ placed = <<>>
    /\ strat = [strategy |-> NoStrategy, pc |-> "idle", entry |-> NoStrategy]
    /\ tui = SetupStateModel_default

\* The keys pressed on the setup screen: the cursor is taken round the board by the
\* two moves that wrap from A1.
SetupKeys == {"Left", "Up", "Enter", "h", "v"}

\* handle_key_events(key)
SetupKey(code) ==
    /\ tui.screen = "setup"
    /\ players = <<>>
    /\ code \in {"Left", "Right", "Up", "Down"} => tui.moves < MaxCursorMoves
    /\ tui' = SetupStateModel_handle_key_events(tui, placed, code).model
    /\ placed' = SetupStateModel_handle_key_events(tui, placed, code).ships
    /\ ret' = [call |-> "key", arg |-> Some(code), result |-> Ok(None)]
    /\ UNCHANGED <<players, last_computer_move, rng, attacked, strat>>

\* update(game): with no kind left, the ships become the fleet of the human player,
\* who is handed to the game; Fleet::new(..).unwrap() panics on a fleet it refuses.
SetupUpdate(human_player_first, seed) ==
    /\ tui.screen = "setup"
    /\ players = <<>>
    /\ IF IsSome(tui.current_kind)
       THEN /\ ret' = [call |-> "update", arg |-> None, result |-> Ok(None)]
            /\ UNCHANGED <<players, rng, tui>>
       ELSE IF Fleet_new(placed).ok
       THEN /\ players' = Game_set_human_player(players, Player_new("player 1", Fleet_new(placed).val),
                                                human_player_first, seed).players
            /\ rng' = Game_set_human_player(players, Player_new("player 1", Fleet_new(placed).val),
                                            human_player_first, seed).rng
            /\ ret' = [call |-> "update", arg |-> None, result |-> Ok(Some("set_human_player"))]
            /\ UNCHANGED tui
       ELSE /\ ret' = [call |-> "update", arg |-> None, result |-> Err("called unwrap on an Err")]
            /\ tui' = [tui EXCEPT !.screen = "panicked"]
            /\ UNCHANGED <<players, rng>>
    /\ UNCHANGED <<last_computer_move, attacked, placed, strat>>

NextSetup ==
    \/ \E code \in SetupKeys : SetupKey(code)
    \/ \E human_player_first \in BOOLEAN : \E seed \in Seeds : SetupUpdate(human_player_first, seed)

SpecSetup == InitSetup /\ [][NextSetup]_vars

\* The ship of the kind at the origin in the orientation, whether it fits or not.
ShipAt(kind, first, orientation) ==
    [first_cell |-> first, ship_size |-> KindSize(kind), orientation |-> orientation,
     state |-> 2 ^ KindSize(kind) - 1]

\* C39: on the setup screen a ship is placed only by Enter at a position where the
\* ship of the current kind fits the board and touches no ship placed before, and
\* it is placed after them; a key that places nothing, a rejected Enter included,
\* leaves the ships and the current kind as they were; the ships placed are of the
\* kinds in canonical order and the current kind is the next one; the human player
\* is handed to the game only with no kind left and exactly five ships placed, one
\* per kind, no two of them touching, as its fleet.
C39_SetupPlaces ==
    /\ [](/\ Len(placed) <= 5
          /\ \A k \in 1 .. Len(placed) :
                placed[k].ship_size =
                    KindSize(<<"AircraftCarrier", "Battleship", "Cruiser", "Submarine", "Destroyer">>[k])
          /\ tui.current_kind =
                (IF Len(placed) < 5
                 THEN Some(<<"AircraftCarrier", "Battleship", "Cruiser", "Submarine",
                             "Destroyer">>[Len(placed) + 1])
                 ELSE None)
          /\ players # <<>> =>
                /\ tui.current_kind = None
                /\ Len(placed) = 5
                /\ \A k \in 1 .. 5 : \A j \in 1 .. 5 : k # j => ~Touching(placed[k], placed[j])
                /\ \E i \in 1 .. 2 : players[i].human /\ players[i].fleet = placed)
    /\ [][ret'.call = "key" =>
             IF placed' # placed
             THEN /\ Unwrap(ret'.arg) = "Enter"
                  /\ IsSome(tui.current_kind)
                  /\ LET ship == ShipAt(Unwrap(tui.current_kind), tui.cursor, tui.current_orientation)
                     IN  /\ ShipCells(ship) \subseteq Cells
                         /\ \A k \in 1 .. Len(placed) : ~Touching(placed[k], ship)
                         /\ placed' = Append(placed, ship)
             ELSE tui'.current_kind = tui.current_kind]_vars

\* The setup was completed with ships of both orientations and the human player was
\* handed to the game.
C39_Witness ==
    /\ ret.call = "update"
    /\ ret.result = Ok(Some("set_human_player"))
    /\ Len(players) = 2
    /\ \E k \in 1 .. 5 : placed[k].orientation = "Horizontal"
    /\ \E k \in 1 .. 5 : placed[k].orientation = "Vertical"

\* ---------------------------------------------------------------- the battle screen

\* BattleStateModel::default (tui/widgets/battle.rs), with the coin that decides who
\* starts, and the exit and enter_pressed flags of NavalBattleTui (tui.rs).  The
\* cursor is that of the opponent grid.  players holds <<computer, human>>.
BattleStateModel_default(player1_start) ==
    [screen |-> "battle", player1_start |-> player1_start, player1_has_shot |-> FALSE,
     player1_won |-> None, cursor |-> Cell_bounded(0, 0), computer_shots |-> <<>>,
     exit |-> FALSE, enter_pressed |-> FALSE]

\* play_turn, the human's shot: human.attack(computer, cursor), and the match is won
\* if the computer has lost.  b = [model, computer, human, rng, moves, returned].
BattleHumanAttack(b) ==
    [b EXCEPT !.human = Player_attack(b.human, b.computer, b.model.cursor).self,
              !.computer = Player_attack(b.human, b.computer, b.model.cursor).opponent,
              !.moves = Append(@, <<"human", b.model.cursor>>),
              !.model.player1_won =
                  IF Player_has_lost(Player_attack(b.human, b.computer, b.model.cursor).opponent)
                  THEN Some(TRUE) ELSE @,
              !.returned =
                  Player_has_lost(Player_attack(b.human, b.computer, b.model.cursor).opponent)]

\* play_turn, the computer's shot: Cell::random(), computer.attack(human, shot), the
\* shot is recorded, and the match is lost if the human has lost.
BattleComputerAttack(b) ==
    [b EXCEPT !.computer = Player_attack(b.computer, b.human, Cell_random(b.rng).val).self,
              !.human = Player_attack(b.computer, b.human, Cell_random(b.rng).val).opponent,
              !.rng = Cell_random(b.rng).rng,
              !.moves = Append(@, <<"computer", Cell_random(b.rng).val>>),
              !.model.computer_shots = Append(@, Cell_random(b.rng).val),
              !.model.player1_won =
                  IF Player_has_lost(Player_attack(b.computer, b.human, Cell_random(b.rng).val).opponent)
                  THEN Some(FALSE) ELSE @,
              !.returned =
                  Player_has_lost(Player_attack(b.computer, b.human, Cell_random(b.rng).val).opponent)]

\* BattleStateModel::play_turn: nothing without a shot of player 1; else the shots
\* in the order of the coin, returning at the first win, and only a turn without a
\* win clears player1_has_shot.
BattleStateModel_play_turn(model, computer, human, r) ==
    LET b0 == [model |-> model, computer |-> computer, human |-> human, rng |-> r,
               moves |-> <<>>, returned |-> FALSE]
        b1 == IF model.player1_start THEN BattleHumanAttack(b0) ELSE b0
        b2 == IF b1.returned THEN b1 ELSE BattleComputerAttack(b1)
        b3 == IF b2.returned \/ model.player1_start THEN b2 ELSE BattleHumanAttack(b2)
    IN  IF ~model.player1_has_shot THEN b0
        ELSE IF b3.returned THEN b3
        ELSE [b3 EXCEPT !.model.player1_has_shot = FALSE]

\* BattleStateModel::handle_key_events
BattleStateModel_handle_key_events(model, code) ==
    CASE code = "Left" -> [model EXCEPT !.cursor = Cell_move_left(@)]
      [] code = "Right" -> [model EXCEPT !.cursor = Cell_move_right(@)]
      [] code = "Up" -> [model EXCEPT !.cursor = Cell_move_up(@)]
      [] code = "Down" -> [model EXCEPT !.cursor = Cell_move_down(@)]
      [] code = "Enter" -> [model EXCEPT !.player1_has_shot = TRUE]
      [] OTHER -> model

\* NavalBattleTui::match_is_over
match_is_over(computer, human) == Player_has_lost(computer) \/ Player_has_lost(human)

\* NavalBattleTui::handle_events: q sets exit, Enter on a finished match sets
\* enter_pressed, and the state model gets the key only while the match is on.
NavalBattleTui_handle_events(model, computer, human, code) ==
    IF code \in {"q", "Q"} THEN [model EXCEPT !.exit = TRUE]
    ELSE IF code = "Enter" /\ match_is_over(computer, human) THEN [model EXCEPT !.enter_pressed = TRUE]
    ELSE IF match_is_over(computer, human) THEN model
    ELSE BattleStateModel_handle_key_events(model, code)

\* The battle screen as check_for_state_change opens it after the setup: the
\* computer with a fleet built at random, the human with the fleet laid out.
InitBattle ==
    /\ \E seed \in Seeds :
          /\ players = <<Player_new(COMPUTER_NAME, Fleet_build_random(seed).val),
                         Player_new("player 1", RowsFleet)>>
          /\ rng = Fleet_build_random(seed).rng
    /\ last_computer_move = None
    /\ ret = [call |-> "new", arg |-> None, result |-> Ok(None)]
    /\ attacked = <<{}, {}>>
    /\ placed = <<>>
    /\ strat = [strategy |-> NoStrategy, pc |-> "idle", entry |-> NoStrategy]
    /\ \E player1_start \in BOOLEAN : tui = BattleStateModel_default(player1_start)

\* One round of the loop of NavalBattleTui::run after the event read: update has
\* played the turn (t); check_for_state_change goes back to the setup, with a new
\* computer and no human, once the match is over and Enter was pressed.
RunUpdated(code, t) ==
    /\ ret' = [call |-> "run", arg |-> Some(code), result |-> Ok(t.model.player1_won),
               moves |-> t.moves]
    /\ attacked' = <<attacked[1] \cup { t.moves[k][2] : k \in { k \in 1 .. Len(t.moves) : t.moves[k][1] = "human" } },
                     attacked[2] \cup { t.moves[k][2] : k \in { k \in 1 .. Len(t.moves) : t.moves[k][1] = "computer" } }>>
    /\ IF match_is_over(t.computer, t.human) /\ t.model.enter_pressed
       THEN /\ players' = <<Player_new(COMPUTER_NAME, Fleet_build_random(t.rng).val)>>
            /\ rng' = Fleet_build_random(t.rng).rng
            /\ tui' = SetupStateModel_default
       ELSE /\ players' = <<t.computer, t.human>>
            /\ rng' = t.rng
            /\ tui' = t.model
    /\ UNCHANGED <<last_computer_move, placed, strat>>

\* The loop of run: handle_events, update, check_for_state_change, while not exit.
Run(code) ==
    /\ tui.screen = "battle"
    /\ ~tui.exit
    /\ Len(tui.computer_shots) < MaxComputerShots
    /\ RunUpdated(code,
          BattleStateModel_play_turn(
              NavalBattleTui_handle_events(tui, players[1], players[2], code),
              players[1], players[2], rng))

\* The next cell player 1 aims at: the first cell of the computer's ships, in the
\* order of the fleet, that its shot grid does not show.
BattleTarget ==
    LET cells == Fleet_occupied_cells(players[1].fleet)
    IN  cells[CHOOSE k \in 1 .. Len(cells) :
                /\ Grid_at(players[2].grid, cells[k]) = "Empty"
                /\ \A j \in 1 .. (k - 1) : Grid_at(players[2].grid, cells[j]) # "Empty"]

\* The keys player 1 presses: on a finished match any of Enter, an arrow and q;
\* else Enter on the target, or the arrow that takes the cursor towards it.
BattleKeys ==
    IF match_is_over(players[1], players[2]) THEN {"Enter", "Left", "q"}
    ELSE IF tui.player1_has_shot THEN {"Enter"}
    ELSE IF tui.cursor = BattleTarget THEN {"Enter"}
    ELSE IF tui.cursor.x # BattleTarget.x THEN {"Right"}
    ELSE {"Down"}

NextBattle == \E code \in (IF tui.screen = "battle" THEN BattleKeys ELSE {}) : Run(code)

SpecBattle == InitBattle /\ [][NextBattle]_vars

\* C40: once play_turn has decided the match (player1_won is set) no later round
\* of the loop makes an attack on either fleet or records a further computer shot,
\* and the result recorded stays as it is.
C40_DecidedIsFinal ==
    [][(tui.screen = "battle" /\ IsSome(tui.player1_won) /\ ret'.call = "run") =>
          /\ ret'.moves = <<>>
          /\ tui'.screen = "battle" =>
                /\ tui'.computer_shots = tui.computer_shots
                /\ tui'.player1_won = tui.player1_won
                /\ players' = players]_vars

\* ---------------------------------------------------------------- the three checks of a fleet

\* A ship of the next kind is presented at one of five origins, as long as it fits.
Present(first, orientation) ==
    /\ Len(placed) < Len(COMPOSITION)
    /\ IsSome(ShipKind_ship(COMPOSITION[Len(placed) + 1], first, orientation))
    /\ placed' = placed \o ShipKind_ship(COMPOSITION[Len(placed) + 1], first, orientation)
    /\ ret' = [call |-> "ship", arg |-> Some(<<COMPOSITION[Len(placed) + 1], first, orientation>>),
               result |-> Ok(None)]
    /\ UNCHANGED <<players, last_computer_move, rng, attacked, strat, tui>>

\* The five ships go through Fleet::build (a builder that presents them in turn),
\* through validate_ships and through the setup screen.
Verdicts ==
    /\ Len(placed) = Len(COMPOSITION)
    /\ ret.call = "ship"
    /\ ret' = [call |-> "verdicts", arg |-> Some(placed), result |-> Ok(None),
               build |-> IsSome(Fleet_build(placed)),
               validate |-> validate_ships(placed).ok,
               setup |-> Len(SetupEnterAll(<<>>, placed)) = Len(COMPOSITION)]
    /\ UNCHANGED <<players, last_computer_move, rng, attacked, placed, strat, tui>>

NextVerdict ==
    \/ \E first \in {Cell(0, 0), Cell(6, 0), Cell(0, 2), Cell(6, 2), Cell(0, 4)} :
          \E orientation \in ShipOrientation : Present(first, orientation)
    \/ Verdicts

SpecVerdict == InitShip /\ [][NextVerdict]_vars

\* ---------------------------------------------------------------- properties of a strategy

\* A call of SmartStrategy::next_move returns in this step.
SmartReturns == strat.pc = "loop" /\ strat'.pc = "idle"

\* C21: every coordinate SmartStrategy::next_move returns was not in the move
\* history before the call and is appended to the history by the call, whatever
\* next_move and notify_hit calls came before; so no coordinate is chosen twice.
C21_NeverTwice ==
    [][SmartReturns =>
          /\ ~Contains(strat.entry.moves, Unwrap(ret'.result.val))
          /\ strat'.strategy.moves = Append(strat.entry.moves, Unwrap(ret'.result.val))]_vars

\* A candidate was returned after an already tried one had been met on the stack.
C21_Witness ==
    /\ strat.pc = "idle" /\ ret.call = "next_move" /\ strat.drawn = None
    /\ strat.strategy.kind = "SmartStrategy"
    /\ \E i \in 1 .. Len(strat.entry.candidates_moves) :
          /\ i > Len(strat.strategy.candidates_moves) + 1
          /\ Contains(strat.entry.moves, strat.entry.candidates_moves[i])

\* A call of notify_hit is made in this step.
Notifies == strat'.notifies # strat.notifies

Abs(n) == IF n < 0 THEN -n ELSE n

\* The board cells in line with m along an axis at a distance of 1 .. size - 1.
Around(m, size) ==
    { c \in Cells : \/ c.y = m.y /\ Abs(c.x - m.x) \in 1 .. (size - 1)
                    \/ c.x = m.x /\ Abs(c.y - m.y) \in 1 .. (size - 1) }

\* C22: notify_hit(kind) with last move m pushes on the candidate stack exactly the
\* board cells at distance 1 .. size(kind) - 1 from m along the four axis directions
\* that are not in the move history, each once, and leaves the rest of the strategy
\* alone; for a Destroyer hit at (5, 5) on a fresh strategy these are (4, 5), (6, 5),
\* (5, 4) and (5, 6).
C22_NotifyHitPushes ==
    [][Notifies =>
          LET old == strat.strategy
              new == strat'.strategy
              m == old.moves[Len(old.moves)]
              pushed == SubSeq(new.candidates_moves, Len(old.candidates_moves) + 1,
                               Len(new.candidates_moves))
              expected == Around(m, KindSize(Unwrap(ret'.arg))) \ SeqToSet(old.moves)
          IN  /\ new.moves = old.moves
              /\ SubSeq(new.candidates_moves, 1, Len(old.candidates_moves)) = old.candidates_moves
              /\ SeqToSet(pushed) = expected
              /\ Len(pushed) = Cardinality(expected)
              /\ (old.moves = <<Cell(5, 5)>> /\ Unwrap(ret'.arg) = "Destroyer") =>
                    SeqToSet(pushed) = {Cell(4, 5), Cell(6, 5), Cell(5, 4), Cell(5, 6)}]_vars

\* A Destroyer hit at (5, 5) was notified to a strategy with no other move and no
\* candidate.
C22_Witness ==
    /\ ret.call = "notify_hit" /\ Unwrap(ret.arg) = "Destroyer"
    /\ strat.entry.moves = <<Cell(5, 5)>> /\ strat.entry.candidates_moves = <<>>
    /\ Len(strat.strategy.candidates_moves) = 4


\* The positions of the stack at the call whose cell was not tried at the call.
UntriedAtCall ==
    { i \in 1 .. Len(strat.entry.candidates_moves) :
        ~Contains(strat.entry.moves, strat.entry.candidates_moves[i]) }

\* C23: next_move takes candidates last pushed first: it returns the most recently
\* pushed candidate that is not yet tried and discards the tried ones above it, and
\* it draws a random coordinate only when no candidate on the stack is untried.
C23_LastPushedFirst ==
    [][SmartReturns =>
          IF UntriedAtCall # {}
          THEN LET top == CHOOSE i \in UntriedAtCall : \A j \in UntriedAtCall : j <= i
               IN  /\ Unwrap(ret'.result.val) = strat.entry.candidates_moves[top]
                   /\ strat'.strategy.candidates_moves =
                          SubSeq(strat.entry.candidates_moves, 1, top - 1)
                   /\ strat'.drawn = None
          ELSE /\ strat'.drawn = ret'.result.val
               /\ strat'.strategy.candidates_moves = <<>>]_vars

\* A candidate was returned from under a tried one while older candidates stayed
\* on the stack.
C23_Witness ==
    /\ strat.pc = "idle" /\ ret.call = "next_move" /\ ret.result.val # None
    /\ strat.strategy.kind = "SmartStrategy"
    /\ strat.drawn = None
    /\ strat.strategy.candidates_moves # <<>>
    /\ Len(strat.entry.candidates_moves) >= Len(strat.strategy.candidates_moves) + 2

\* C24: the next_move of the random strategy returns a cell of the board, and every
\* one of the hundred cells of the board, column 9 and row 9 included, is the cell
\* of some pair of values the random source can draw.
C24_WholeBoard ==
    (ret.call = "next_move" /\ strat.strategy.kind = "RandomStrategy") =>
        /\ Unwrap(ret.result.val) \in Cells
        /\ \A c \in Cells : \E a \in 0 .. 255 : \E b \in 0 .. 255 : Cell_random_of(a, b) = c

\* C30: a call of SmartStrategy::next_move made while some cell of the board is
\* untried returns, given a random source that keeps giving every value it can
\* give; also when the stack is empty and only cells of row 9 or column 9 are left.
C30_NextMoveReturns ==
    (strat.pc = "loop" /\ \E c \in Cells : ~Contains(strat.strategy.moves, c))
        ~> (strat.pc = "idle")

\* ---------------------------------------------------------------- properties of a cell

ColumnLetters == <<"A", "B", "C", "D", "E", "F", "G", "H", "I", "J">>
RowNumbers == <<<<"1">>, <<"2">>, <<"3">>, <<"4">>, <<"5">>, <<"6">>, <<"7">>, <<"8">>, <<"9">>,
                <<"1", "0">>>>

\* C25: the label of a board cell is its column letter A-J followed by its row
\* number counted from one, without leading zeros, and parsing that label gives
\* the cell back.
C25_LabelRoundTrip ==
    /\ ret.call = "fmt" =>
          Unwrap(ret.result.val) =
              <<ColumnLetters[Unwrap(ret.arg).x + 1]>> \o RowNumbers[Unwrap(ret.arg).y + 1]
    /\ (ret.call = "from_str" /\ ret.of = "label") =>
          (ret.result.ok /\ ret.result.val = Unwrap(ret.cell))

\* The label of the last cell of the board, two digits long, was parsed back.
C25_Witness ==
    /\ ret.call = "from_str" /\ ret.of = "label"
    /\ Unwrap(ret.arg) = <<"J", "1", "0">>
    /\ Unwrap(ret.cell) = Cell(9, 9)

\* The value of a text of decimal digits, and whether a text is such a one.
DigitValue(ch) == CHOOSE d \in 0 .. 9 : <<"0", "1", "2", "3", "4", "5", "6", "7", "8", "9">>[d + 1] = ch
AllDigits(t) ==
    \A i \in 1 .. Len(t) : t[i] \in {"0", "1", "2", "3", "4", "5", "6", "7", "8", "9"}
RECURSIVE ValueOf(_)
ValueOf(t) == IF t = <<>> THEN 0 ELSE 10 * ValueOf(SubSeq(t, 1, Len(t) - 1)) + DigitValue(t[Len(t)])

\* The column a letter A-J of either case stands for, counted from zero.
ColumnOf(ch) ==
    CHOOSE x \in 0 .. 9 :
        ch \in {ColumnLetters[x + 1], <<"a", "b", "c", "d", "e", "f", "g", "h", "i", "j">>[x + 1]}

\* One letter A-J of either case followed by decimal digits only, of value 1 .. 10.
WellFormed(t) ==
    /\ Len(t) >= 2
    /\ \E x \in 0 .. 9 :
          t[1] \in {ColumnLetters[x + 1], <<"a", "b", "c", "d", "e", "f", "g", "h", "i", "j">>[x + 1]}
    /\ AllDigits(Tail(t))
    /\ ValueOf(Tail(t)) \in 1 .. 10

\* C26: from_str accepts exactly the texts of one letter A-J, of either case,
\* followed only by decimal digits of value 1 .. 10, and returns the cell counted
\* from zero; every other text fails with InvalidFormat carrying the text.
C26_AcceptsExactly ==
    ret.call = "from_str" =>
        IF WellFormed(Unwrap(ret.arg))
        THEN /\ ret.result.ok
             /\ ret.result.val = Cell(ColumnOf(Unwrap(ret.arg)[1]), ValueOf(Tail(Unwrap(ret.arg))) - 1)
        ELSE /\ ~ret.result.ok
             /\ ret.result.err = <<"InvalidFormat", Unwrap(ret.arg)>>

\* C27: Cell::bounded(x, y) always gives a cell, the one at (min(x, 9), min(y, 9)),
\* which lies on the board.
C27_BoundedClamps ==
    ret.call = "bounded" =>
        LET x == Unwrap(ret.arg)[1]
            y == Unwrap(ret.arg)[2]
        IN  /\ ret.result.ok
            /\ Unwrap(ret.result.val) = [x |-> IF x <= 9 THEN x ELSE 9, y |-> IF y <= 9 THEN y ELSE 9]
            /\ Unwrap(ret.result.val) \in Cells

\* bounded was called with a row beyond the board and a column on it.
C27_Witness ==
    /\ ret.call = "bounded"
    /\ Unwrap(ret.arg)[1] <= 9 /\ Unwrap(ret.arg)[2] = 255
    /\ Unwrap(ret.result.val).y = 9

\* C28: Cell::new(x, y) succeeds exactly when x <= 9 and y <= 9, with the cell
\* (x, y); it fails with InvalidX(x) when only x is out of range, InvalidY(y) when
\* only y is, and InvalidCoordinates(x, y) when both are.
C28_NewStrict ==
    ret.call = "new" =>
        LET x == Unwrap(ret.arg)[1]
            y == Unwrap(ret.arg)[2]
        IN  /\ ret.result.ok <=> (x <= 9 /\ y <= 9)
            /\ ret.result.ok => ret.result.val = [x |-> x, y |-> y]
            /\ (x > 9 /\ y <= 9) => ret.result.err = <<"InvalidX", x>>
            /\ (x <= 9 /\ y > 9) => ret.result.err = <<"InvalidY", y>>
            /\ (x > 9 /\ y > 9) => ret.result.err = <<"InvalidCoordinates", x, y>>

\* new was called with both coordinates out of range.
C28_Witness ==
    /\ ret.call = "new"
    /\ Unwrap(ret.arg)[1] > 9 /\ Unwrap(ret.arg)[2] > 9
    /\ ~ret.result.ok

\* C29: for five fitting ships, one of each kind in the order of the composition,
\* the acceptance check of Fleet::build, validate_ships and the placement check of
\* the setup screen give the same verdict.
C29_SameVerdict ==
    ret.call = "verdicts" => (ret.build = ret.validate /\ ret.validate = ret.setup)

====
